---- MODULE Spec2Model ----
(***************************************************************************)
(* Model of the platform2 transport engine and proxy frontend:             *)
(*   - utlsRoundTripper (internal/transport/utls_client.go): RoundTrip,    *)
(*     the HTTP/2 session pool, dialUTLS, roundTripH2, roundTripH1;        *)
(*   - SimpleAuth.ValidateProxyAuth (projects/strike2/auth);               *)
(*   - combinedHandler.ServeHTTP and proxy.Handler (CONNECT tunnel, plain  *)
(*     HTTP forward, copyHeaders, dialViaUpstreamProxy);                   *)
(*   - fingerprint selection by name (NewHandler, findFingerprint);        *)
(*   - ScraperService (FetchURL, FetchBatch, the worker pool, the body     *)
(*     limit);                                                             *)
(*   - RoundTrip statement by statement under h2ConnPoolMu, the blocking   *)
(*     steps of a request under its context, and the dial address of a     *)
(*     host;                                                               *)
(*   - UTLSClient.Do and the caller's body read, the forwards of one       *)
(*     proxy Handler, ScraperService.getClient under concurrent callers,   *)
(*     the copy goroutines of a tunnel, and strike2.New's worker count.    *)
(***************************************************************************)
EXTENDS Integers, Sequences, FiniteSets, TLC

(***************************************************************************)
(* Bounds.                                                                 *)
(***************************************************************************)
\* Number of RoundTrip calls made on one utlsRoundTripper.
NCalls == 3

Calls == 1..NCalls

\* The zero value of a *http2.ClientConn / connection reference (nil).
NoConn == 0

(***************************************************************************)
(* Strings are sequences of one-character strings, so that prefix tests,   *)
(* Contains and concatenation are computed as the code computes them.      *)
(***************************************************************************)
Contains(s, ch) == \E i \in 1..Len(s) : s[i] = ch

\* req.URL.Host values the calls are made with.
HostA == <<"a">>
HostAPort == <<"a", ":", "4", "4", "3">>
HostB == <<"b", ":", "8", "4", "4", "3">>
URLHosts == {HostA, HostAPort, HostB}

\* utls_client.go:122-125: addr := req.URL.Host; append ":443" when it holds no colon.
PoolKey(host) == IF Contains(host, ":") THEN host ELSE host \o <<":", "4", "4", "3">>

Addrs == {PoolKey(h) : h \in URLHosts}

\* Values uConn.ConnectionState().NegotiatedProtocol can take after a handshake.
ALPNValues == {"h2", "http/1.1", "", "spdy/3.1"}

VARIABLES
    \* ---- utlsRoundTripper ----
    h2ConnPool,   \* rt.h2ConnPool: pool key -> session (the id of the call that created it) or NoConn
    conn,         \* per call: the TCP/TLS connection the call dialed: "none" | "open" | "closed"
    connUsed,     \* per call id: a request was issued on that call's connection / session
    call,         \* per call: the local state of one RoundTrip invocation
    \* ---- SimpleAuth.ValidateProxyAuth ----
    authToken,    \* a.token, a byte string
    authHeader,   \* r.Header.Get("Proxy-Authorization"), a character string
    authResult,   \* what ValidateProxyAuth returned (FALSE until it has)
    authPc,       \* "call" before ValidateProxyAuth ran, "returned" after
    \* ---- combinedHandler and proxy.Handler, one inbound request ----
    cfg,          \* strike2.Config: ProxyToken, UpstreamProxy
    simpleAuth,   \* combinedHandler.simpleAuth: [nil, token]
    proxyHandler, \* combinedHandler.proxyHandler: [nil, upstreamURL]
    req,          \* the inbound request: Method, IsAbs (r.URL.IsAbs()), ProxyAuth (header value)
    pc,           \* position of the request in the handlers
    resp,         \* what was written to the http.ResponseWriter: status, Proxy-Authenticate
    route,        \* the handler the request was dispatched to: "none" | "proxy" | "api"
    events,       \* the outbound and socket events of the request, in order
    targetConn,   \* handleConnect targetConn: "none" | "open" | "closed"
    clientConn,   \* handleConnect clientConn (hijacked socket): "none" | "open" | "closed"
    copier,       \* the two io.Copy goroutines: "off" | "run" | "ended"
    done,         \* number of signals buffered in the done channel (capacity 2)
    \* ---- copyHeaders(dst, src), one call ----
    hdrSrc,       \* src: header name -> its values, <<>> when the name is absent
    hdrDst,       \* dst: canonical header name -> its values
    hdrSrc0,      \* src as it was when copyHeaders was called
    hdrDst0,      \* dst as it was when copyHeaders was called
    hdrTodo,      \* the keys of src the range loop has not visited yet
    \* ---- handleHTTP, the headers of one forwarded request ----
    fwd,          \* inbound, outbound, origin and written headers and statuses
    \* ---- dialViaUpstreamProxy, one call ----
    up,           \* the call's position, its connection and what it returned
    \* ---- fingerprint selection by name, one call ----
    fp,           \* the function called, the name given and the profile returned
    \* ---- ScraperService: FetchBatch and its FetchURL calls ----
    sc,           \* worker pool, context, the fetch goroutines and the batch response
    \* ---- the success / failed tally of FetchBatch, one call ----
    tl,           \* the results tallied and the counts returned
    \* ---- utlsRoundTripper under h2ConnPoolMu, statement by statement ----
    lk,           \* the pool, the lock's holders and each call's position
    \* ---- FetchURL, the body of one response ----
    bd,           \* the origin's response and the FetchResponse returned
    \* ---- the blocking steps of one inbound request and its context ----
    cx,           \* the path taken, the step the request is blocked in, ctx.Done()
    \* ---- the dial address computed from a host, one call ----
    hp,           \* the function called, the host given and the address computed
    \* ---- UTLSClient.Do and the caller's read of the response body ----
    dc,           \* the request's context, the caller's position, what the read gave
    \* ---- the forwards of one proxy Handler and their round trippers ----
    hf,           \* the round trippers created, their pools, each forward's position
    \* ---- ScraperService.getClient, concurrent calls ----
    gc            \* clientCache, cacheMu and each call's position

rtVars == <<h2ConnPool, conn, connUsed, call>>

authVars == <<authToken, authHeader, authResult, authPc>>

feVars == <<cfg, simpleAuth, proxyHandler, req, pc, resp, route, events,
            targetConn, clientConn, copier, done>>

hdrVars == <<hdrSrc, hdrDst, hdrSrc0, hdrDst0, hdrTodo>>

\* The components added to the model after the first four, one variable each.
lateVars == <<lk, bd, cx, hp>>

lastVars == <<dc, hf, gc>>

moreVars == <<fwd, up, fp, sc, tl, lateVars, lastVars>>

vars == <<h2ConnPool, conn, connUsed, call, authToken, authHeader, authResult, authPc,
          cfg, simpleAuth, proxyHandler, req, pc, resp, route, events,
          targetConn, clientConn, copier, done,
          hdrSrc, hdrDst, hdrSrc0, hdrDst0, hdrTodo,
          fwd, up, fp, sc, tl, lk, bd, cx, hp, dc, hf, gc>>

\* The variables of the other components, which a step of one component leaves alone.
notRT == <<authVars, feVars, hdrVars, moreVars>>

notAuth == <<rtVars, feVars, hdrVars, moreVars>>

notFE == <<rtVars, authVars, hdrVars, moreVars>>

notHdr == <<rtVars, authVars, feVars, moreVars>>

firstVars == <<rtVars, authVars, feVars, hdrVars>>

notFwd == <<firstVars, up, fp, sc, tl, lateVars, lastVars>>

notUp == <<firstVars, fwd, fp, sc, tl, lateVars, lastVars>>

notFp == <<firstVars, fwd, up, sc, tl, lateVars, lastVars>>

notSc == <<firstVars, fwd, up, fp, tl, lateVars, lastVars>>

notTl == <<firstVars, fwd, up, fp, sc, lateVars, lastVars>>

earlyVars == <<firstVars, fwd, up, fp, sc, tl>>

notLk == <<earlyVars, bd, cx, hp, lastVars>>

notBd == <<earlyVars, lk, cx, hp, lastVars>>

notCx == <<earlyVars, lk, bd, hp, lastVars>>

notHp == <<earlyVars, lk, bd, cx, lastVars>>

notDc == <<earlyVars, lateVars, hf, gc>>

notHf == <<earlyVars, lateVars, dc, gc>>

notGc == <<earlyVars, lateVars, dc, hf>>

(***************************************************************************)
(* utlsRoundTripper.RoundTrip                                              *)
(***************************************************************************)
IdleCall ==
    [ pc           |-> "idle",     \* position of the call in RoundTrip
      scheme       |-> "",         \* req.URL.Scheme
      addr         |-> <<>>,       \* the pool key / dial address
      got          |-> NoConn,     \* h2Conn read at lines 127-129 (NoConn again once it is dead, after line 139)
      alpn         |-> "none",     \* negotiatedProto
      issued       |-> 0,          \* how many times the request was put on the wire
      dials        |-> 0,          \* TCP dials made by this call
      handshakes   |-> 0,          \* TLS handshakes started by this call
      writes       |-> 0,          \* pool mutations (insert, delete) made by this call
      servedBy     |-> NoConn,     \* the connection whose RoundTrip produced the result
      pooledFailed |-> FALSE,      \* the request failed on a reused pooled session
      result       |-> "none" ]    \* "ok" | "err": what RoundTrip returned

\* newUTLSRoundTripper (utls_client.go:57-81): an empty pool.
RTInit ==
    /\ h2ConnPool = [k \in Addrs |-> NoConn]
    /\ conn = [c \in Calls |-> "none"]
    /\ connUsed = [c \in Calls |-> FALSE]
    /\ call = [c \in Calls |-> IdleCall]

Finish(rec, res) == [rec EXCEPT !.pc = "done", !.result = res]

\* The calls are interchangeable: they are numbered in the order in which they
\* enter RoundTrip.
NextToArrive(c) == \A d \in Calls : d < c => call[d].pc # "idle"

\* RoundTrip lines 118-120: a request that is not https goes to
\* rt.http1Transport.RoundTrip(req): no uTLS dial, no pool access.
PlainRoundTrip(c) ==
    /\ UNCHANGED notRT
    /\ call[c].pc = "idle"
    /\ NextToArrive(c)
    /\ \E ok \in BOOLEAN :
         call' = [call EXCEPT ![c] =
                    Finish([@ EXCEPT !.scheme = "http", !.issued = @ + 1],
                           IF ok THEN "ok" ELSE "err")]
    /\ UNCHANGED <<h2ConnPool, conn, connUsed>>

\* RoundTrip lines 118-129 for an https request: addr is computed and the pool
\* is read under the read lock.
Lookup(c) ==
    /\ UNCHANGED notRT
    /\ call[c].pc = "idle"
    /\ NextToArrive(c)
    /\ \E h \in URLHosts :
         call' = [call EXCEPT ![c] =
                    [@ EXCEPT !.scheme = "https",
                              !.addr = PoolKey(h),
                              !.got = h2ConnPool[PoolKey(h)],
                              !.pc = "check"]]
    /\ UNCHANGED <<h2ConnPool, conn, connUsed>>

\* lines 131-135: exists && h2Conn.CanTakeNewRequest(), then h2Conn.RoundTrip(req).
\* Capacity and the outcome of the request are decided by the peer.
PooledRoundTrip(c) ==
    /\ UNCHANGED notRT
    /\ call[c].pc = "check"
    /\ \E can \in BOOLEAN, ok \in BOOLEAN :
         IF call[c].got # NoConn /\ can
         THEN /\ connUsed' = [connUsed EXCEPT ![call[c].got] = TRUE]
              /\ call' = [call EXCEPT ![c] =
                    IF ok
                    THEN Finish([@ EXCEPT !.issued = @ + 1, !.servedBy = call[c].got,
                                          !.got = NoConn], "ok")
                    ELSE [@ EXCEPT !.issued = @ + 1, !.pooledFailed = TRUE, !.pc = "evict"]]
         ELSE /\ call' = [call EXCEPT ![c] = [@ EXCEPT !.got = NoConn, !.pc = "dial"]]
              /\ UNCHANGED connUsed
    /\ UNCHANGED <<h2ConnPool, conn>>

\* lines 136-139: delete(rt.h2ConnPool, addr) under the write lock; control then
\* leaves the if block and continues at line 141.
Evict(c) ==
    /\ UNCHANGED notRT
    /\ call[c].pc = "evict"
    /\ h2ConnPool' = [h2ConnPool EXCEPT ![call[c].addr] = NoConn]
    /\ call' = [call EXCEPT ![c] = [@ EXCEPT !.writes = @ + 1, !.got = NoConn, !.pc = "dial"]]
    /\ UNCHANGED <<conn, connUsed>>

\* Insert with the store into the pool left out.
Insert_NotStored(c, rec) ==
    /\ UNCHANGED h2ConnPool
    /\ call' = [call EXCEPT ![c] = [rec EXCEPT !.writes = @ + 1, !.pc = "h2rt"]]
    /\ conn' = [conn EXCEPT ![c] = "open"]

\* roundTripH2 lines 176-178: rt.h2ConnPool[addr] = h2Conn under the write lock.
Insert(c, rec) ==
    /\ h2ConnPool' = [h2ConnPool EXCEPT ![rec.addr] = c]
    /\ call' = [call EXCEPT ![c] = [rec EXCEPT !.writes = @ + 1, !.pc = "h2rt"]]
    /\ conn' = [conn EXCEPT ![c] = "open"]

\* roundTripH2 lines 163-178: h2Transport.NewClientConn(conn); on error
\* conn.Close() and the error is returned; otherwise the session is stored.
RoundTripH2(c, rec) ==
    /\ \/ Insert(c, rec)
       \/ /\ conn' = [conn EXCEPT ![c] = "closed"]
          /\ call' = [call EXCEPT ![c] = Finish(rec, "err")]
          /\ UNCHANGED h2ConnPool
    /\ UNCHANGED connUsed

\* roundTripH1 storing the connection into the pool as roundTripH2 does.
RoundTripH1_Pooled(c, rec) ==
    /\ connUsed' = [connUsed EXCEPT ![c] = TRUE]
    /\ call' = [call EXCEPT ![c] =
                  Finish([rec EXCEPT !.issued = @ + 1, !.servedBy = c], "ok")]
    /\ conn' = [conn EXCEPT ![c] = "open"]
    /\ h2ConnPool' = [h2ConnPool EXCEPT ![rec.addr] = c]

\* roundTripH1 lines 184-202: transport.RoundTrip(req) over the new connection;
\* on error conn.Close().
RoundTripH1(c, rec) ==
    /\ connUsed' = [connUsed EXCEPT ![c] = TRUE]
    /\ \E ok \in BOOLEAN :
         IF ok
         THEN /\ call' = [call EXCEPT ![c] =
                            Finish([rec EXCEPT !.issued = @ + 1, !.servedBy = c], "ok")]
              /\ conn' = [conn EXCEPT ![c] = "open"]
         ELSE /\ conn' = [conn EXCEPT ![c] = "closed"]
              /\ call' = [call EXCEPT ![c] = Finish([rec EXCEPT !.issued = @ + 1], "err")]
    /\ UNCHANGED h2ConnPool

\* Dispatch with the default branch returning the error without uConn.Close().
Dispatch_NoClose(c, rec, p) ==
    IF p = "h2" THEN RoundTripH2(c, [rec EXCEPT !.alpn = p])
    ELSE IF p \in {"http/1.1", ""} THEN RoundTripH1(c, [rec EXCEPT !.alpn = p])
    ELSE /\ conn' = [conn EXCEPT ![c] = "open"]
         /\ call' = [call EXCEPT ![c] = Finish([rec EXCEPT !.alpn = p], "err")]
         /\ UNCHANGED <<h2ConnPool, connUsed>>

\* lines 147-159: switch negotiatedProto, for the protocol p the handshake
\* negotiated on the connection the call (record rec) has just established.
Dispatch(c, rec, p) ==
    IF p = "h2" THEN RoundTripH2(c, [rec EXCEPT !.alpn = p])
    ELSE IF p \in {"http/1.1", ""} THEN RoundTripH1(c, [rec EXCEPT !.alpn = p])
    ELSE /\ conn' = [conn EXCEPT ![c] = "closed"]
         /\ call' = [call EXCEPT ![c] = Finish([rec EXCEPT !.alpn = p], "err")]
         /\ UNCHANGED <<h2ConnPool, connUsed>>

\* DialAndDispatch with the failed handshake returning without conn.Close().
DialAndDispatch_HandshakeLeak(c) ==
    /\ UNCHANGED notRT
    /\ call[c].pc = "dial"
    /\ \/ /\ call' = [call EXCEPT ![c] = Finish([@ EXCEPT !.dials = @ + 1], "err")]
          /\ UNCHANGED <<conn, h2ConnPool, connUsed>>
       \/ /\ conn' = [conn EXCEPT ![c] = "open"]
          /\ call' = [call EXCEPT ![c] =
                        Finish([@ EXCEPT !.dials = @ + 1, !.handshakes = @ + 1], "err")]
          /\ UNCHANGED <<h2ConnPool, connUsed>>
       \/ \E p \in ALPNValues :
             Dispatch(c, [call[c] EXCEPT !.dials = @ + 1, !.handshakes = @ + 1], p)

\* RoundTrip lines 141-159. dialUTLS (lines 84-114): rt.dialer.DialContext, then
\* uConn.Handshake(); on a dial error the error is returned, on a handshake
\* error conn.Close() and the error is returned (lines 142-145); on success
\* RoundTrip reads the negotiated protocol (line 147) and switches on it. Up to
\* the store into the pool these steps touch nothing but the call's own
\* connection, so they are taken as one step.
DialAndDispatch(c) ==
    /\ UNCHANGED notRT
    /\ call[c].pc = "dial"
    /\ \/ /\ call' = [call EXCEPT ![c] = Finish([@ EXCEPT !.dials = @ + 1], "err")]
          /\ UNCHANGED <<conn, h2ConnPool, connUsed>>
       \/ /\ conn' = [conn EXCEPT ![c] = "closed"]
          /\ call' = [call EXCEPT ![c] =
                        Finish([@ EXCEPT !.dials = @ + 1, !.handshakes = @ + 1], "err")]
          /\ UNCHANGED <<h2ConnPool, connUsed>>
       \/ \E p \in ALPNValues :
             Dispatch(c, [call[c] EXCEPT !.dials = @ + 1, !.handshakes = @ + 1], p)

\* roundTripH2 line 180: return h2Conn.RoundTrip(req).
H2RoundTrip(c) ==
    /\ UNCHANGED notRT
    /\ call[c].pc = "h2rt"
    /\ connUsed' = [connUsed EXCEPT ![c] = TRUE]
    /\ \E ok \in BOOLEAN :
         call' = [call EXCEPT ![c] =
                    Finish([@ EXCEPT !.issued = @ + 1, !.servedBy = IF ok THEN c ELSE NoConn],
                           IF ok THEN "ok" ELSE "err")]
    /\ UNCHANGED <<h2ConnPool, conn>>

RTNext ==
    \E c \in Calls :
        \/ PlainRoundTrip(c)
        \/ Lookup(c)
        \/ PooledRoundTrip(c)
        \/ Evict(c)
        \/ DialAndDispatch(c)
        \/ H2RoundTrip(c)


(***************************************************************************)
(* SimpleAuth.ValidateProxyAuth (projects/strike2/auth).                   *)
(* The header is a string of characters; the decoded credentials and the   *)
(* token are strings of bytes.                                             *)
(***************************************************************************)
\* Longest decoded credential string the headers are built from.
MaxCred == 3

\* The alphabet of encoding/base64.StdEncoding: value v is written B64Alphabet[v + 1].
B64Alphabet ==
    << "A", "B", "C", "D", "E", "F", "G", "H", "I", "J", "K", "L", "M",
       "N", "O", "P", "Q", "R", "S", "T", "U", "V", "W", "X", "Y", "Z",
       "a", "b", "c", "d", "e", "f", "g", "h", "i", "j", "k", "l", "m",
       "n", "o", "p", "q", "r", "s", "t", "u", "v", "w", "x", "y", "z",
       "0", "1", "2", "3", "4", "5", "6", "7", "8", "9", "+", "/" >>

IsB64Char(ch) == \E i \in 1..64 : B64Alphabet[i] = ch

B64Value(ch) == (CHOOSE i \in 1..64 : B64Alphabet[i] = ch) - 1

\* base64.StdEncoding.EncodeToString: three bytes to four characters, "=" padding.
RECURSIVE B64Encode(_)
B64Encode(bytes) ==
    IF Len(bytes) = 0 THEN <<>>
    ELSE IF Len(bytes) = 1
    THEN << B64Alphabet[(bytes[1] \div 4) + 1],
            B64Alphabet[((bytes[1] % 4) * 16) + 1], "=", "=" >>
    ELSE IF Len(bytes) = 2
    THEN << B64Alphabet[(bytes[1] \div 4) + 1],
            B64Alphabet[((bytes[1] % 4) * 16 + bytes[2] \div 16) + 1],
            B64Alphabet[((bytes[2] % 16) * 4) + 1], "=" >>
    ELSE << B64Alphabet[(bytes[1] \div 4) + 1],
            B64Alphabet[((bytes[1] % 4) * 16 + bytes[2] \div 16) + 1],
            B64Alphabet[((bytes[2] % 16) * 4 + bytes[3] \div 64) + 1],
            B64Alphabet[(bytes[3] % 64) + 1] >>
         \o B64Encode(SubSeq(bytes, 4, Len(bytes)))

IsNewline(ch) == ch \in {"\n", "\r"}

NotNewline(ch) == ~IsNewline(ch)

\* One quantum of four characters, the last one of the input or not, decoded:
\* [ok, bytes]. Padding is accepted only in the last quantum, as "xx==" or "xxx=";
\* the unused low bits of the last character are not checked (non-strict decoding).
B64Quantum(q, last) ==
    IF IsB64Char(q[1]) /\ IsB64Char(q[2]) /\ IsB64Char(q[3]) /\ IsB64Char(q[4])
    THEN [ok |-> TRUE,
          bytes |-> << B64Value(q[1]) * 4 + B64Value(q[2]) \div 16,
                       (B64Value(q[2]) % 16) * 16 + B64Value(q[3]) \div 4,
                       (B64Value(q[3]) % 4) * 64 + B64Value(q[4]) >>]
    ELSE IF last /\ IsB64Char(q[1]) /\ IsB64Char(q[2]) /\ IsB64Char(q[3]) /\ q[4] = "="
    THEN [ok |-> TRUE,
          bytes |-> << B64Value(q[1]) * 4 + B64Value(q[2]) \div 16,
                       (B64Value(q[2]) % 16) * 16 + B64Value(q[3]) \div 4 >>]
    ELSE IF last /\ IsB64Char(q[1]) /\ IsB64Char(q[2]) /\ q[3] = "=" /\ q[4] = "="
    THEN [ok |-> TRUE, bytes |-> << B64Value(q[1]) * 4 + B64Value(q[2]) \div 16 >>]
    ELSE [ok |-> FALSE, bytes |-> <<>>]

RECURSIVE B64DecodeQuanta(_)
B64DecodeQuanta(s) ==
    IF Len(s) = 0 THEN [ok |-> TRUE, bytes |-> <<>>]
    ELSE IF Len(s) < 4 THEN [ok |-> FALSE, bytes |-> <<>>]
    ELSE LET head == B64Quantum(SubSeq(s, 1, 4), Len(s) = 4)
             rest == B64DecodeQuanta(SubSeq(s, 5, Len(s)))
         IN  IF head.ok /\ rest.ok
             THEN [ok |-> TRUE, bytes |-> head.bytes \o rest.bytes]
             ELSE [ok |-> FALSE, bytes |-> <<>>]

\* base64.StdEncoding.DecodeString: "\r" and "\n" are skipped, then the input
\* is read in quanta of four characters; ok = (err == nil).
B64Decode(s) == B64DecodeQuanta(SelectSeq(s, NotNewline))

HasPrefix(s, prefix) ==
    /\ Len(s) >= Len(prefix)
    /\ SubSeq(s, 1, Len(prefix)) = prefix

\* The byte ':'.
Colon == 58

\* SplitN2 cutting at the last colon instead of the first.
SplitN2_LastColon(s) ==
    IF \E i \in 1..Len(s) : s[i] = Colon
    THEN LET i == CHOOSE i \in 1..Len(s) :
                      s[i] = Colon /\ \A j \in (i + 1)..Len(s) : s[j] # Colon
         IN  << SubSeq(s, 1, i - 1), SubSeq(s, i + 1, Len(s)) >>
    ELSE << s >>

\* strings.SplitN(s, ":", 2): the string itself when it holds no colon,
\* otherwise the parts before and after the first colon.
SplitN2(s) ==
    IF \E i \in 1..Len(s) : s[i] = Colon
    THEN LET i == CHOOSE i \in 1..Len(s) :
                      s[i] = Colon /\ \A j \in 1..(i - 1) : s[j] # Colon
         IN  << SubSeq(s, 1, i - 1), SubSeq(s, i + 1, Len(s)) >>
    ELSE << s >>

BasicPrefix == << "B", "a", "s", "i", "c", " " >>

\* SimpleAuth.ValidateProxyAuth for a.token = token and the header value proxyAuth.
ValidateProxyAuth(token, proxyAuth) ==
    IF proxyAuth = <<>> THEN FALSE
    ELSE IF ~HasPrefix(proxyAuth, BasicPrefix) THEN FALSE
    ELSE LET decoded == B64Decode(SubSeq(proxyAuth, 7, Len(proxyAuth)))
         IN  IF ~decoded.ok THEN FALSE
             ELSE LET parts == SplitN2(decoded.bytes)
                  IN  IF Len(parts) # 2 THEN FALSE
                      ELSE parts[2] = token

\* The bytes the credential strings are built from: 'u', ':' and 't'.
CredBytes == {117, Colon, 116}

RECURSIVE SeqsUpTo(_, _)
SeqsUpTo(S, n) ==
    IF n = 0 THEN {<<>>}
    ELSE LET shorter == SeqsUpTo(S, n - 1)
         IN  shorter \cup {Append(q, x) : q \in shorter, x \in S}

Creds == SeqsUpTo(CredBytes, MaxCred)

\* Configured tokens: "t" and "ut".
Tokens == {<<116>>, <<117, 116>>}

DropLast(s) == SubSeq(s, 1, Len(s) - 1)

\* Proxy-Authorization values: none, well-formed Basic credentials, another
\* scheme, a scheme in the wrong case, and payloads that do not decode.
AuthHeaders ==
    {<<>>}
    \cup {BasicPrefix \o B64Encode(cr) : cr \in Creds}
    \cup {<<"B", "e", "a", "r", "e", "r", " ">> \o B64Encode(cr) : cr \in Creds}
    \cup {<<"b", "a", "s", "i", "c", " ">> \o B64Encode(cr) : cr \in Creds}
    \cup {BasicPrefix \o DropLast(B64Encode(cr)) : cr \in Creds \ {<<>>}}
    \cup {BasicPrefix \o B64Encode(cr) \o <<"!">> : cr \in Creds}

AuthInit ==
    /\ authToken \in Tokens
    /\ authHeader \in AuthHeaders
    /\ authResult = FALSE
    /\ authPc = "call"

\* One call a.ValidateProxyAuth(r).
Validate ==
    /\ UNCHANGED notAuth
    /\ authPc = "call"
    /\ authResult' = ValidateProxyAuth(authToken, authHeader)
    /\ authPc' = "returned"
    /\ UNCHANGED <<authToken, authHeader>>


(***************************************************************************)
(* The combined frontend (strike2.New, combinedHandler.ServeHTTP) and      *)
(* proxy.Handler (ServeHTTP, handleConnect, handleHTTP), for one request.  *)
(***************************************************************************)
\* The empty string of cfg.ProxyToken / a missing header.
Empty == <<>>

\* STRIKE2 proxy tokens a deployment is started with: unset, or "t".
ProxyTokens == {Empty, <<116>>}

\* cfg.UpstreamProxy: unset, a URL url.Parse accepts, a URL it rejects.
UpstreamProxies == {"", "http://up:3128", "http://up:%zz"}

UrlParses(u) == u # "http://up:%zz"

\* Proxy-Authorization values of the inbound request: none, user "u" with
\* token "t", user "u" with token "u", and a Bearer value.
ReqProxyAuths ==
    { Empty,
      BasicPrefix \o B64Encode(<<117, Colon, 116>>),
      BasicPrefix \o B64Encode(<<117, Colon, 117>>),
      <<"B", "e", "a", "r", "e", "r", " ", "t">> }

\* strike2.New lines 71-77: simpleAuth stays nil when cfg.ProxyToken is empty.
NewSimpleAuth(c) ==
    IF c.ProxyToken # Empty
    THEN [nil |-> FALSE, token |-> c.ProxyToken]
    ELSE [nil |-> TRUE, token |-> Empty]

\* strike2.New lines 87-102 with proxy.NewHandler: the handler stays nil when the
\* upstream URL does not parse; upstreamURL is set when an upstream is configured.
NewProxyHandler(c) ==
    IF c.UpstreamProxy # "" /\ ~UrlParses(c.UpstreamProxy)
    THEN [nil |-> TRUE, upstreamURL |-> FALSE]
    ELSE [nil |-> FALSE, upstreamURL |-> c.UpstreamProxy # ""]

NoResp == [status |-> 0, proxyAuthenticate |-> FALSE]

FEInit ==
    /\ cfg \in [ProxyToken : ProxyTokens, UpstreamProxy : UpstreamProxies]
    /\ simpleAuth = NewSimpleAuth(cfg)
    /\ proxyHandler = NewProxyHandler(cfg)
    /\ req \in [Method : {"CONNECT", "GET"}, IsAbs : BOOLEAN, ProxyAuth : ReqProxyAuths]
    /\ pc = "recv"
    /\ resp = NoResp
    /\ route = "none"
    /\ events = <<>>
    /\ targetConn = "none"
    /\ clientConn = "none"
    /\ copier = [c2t |-> "off", t2c |-> "off"]
    /\ done = 0

\* auth.Reject407: status 407 with a Proxy-Authenticate challenge.
Reject407 ==
    /\ resp' = [status |-> 407, proxyAuthenticate |-> TRUE]
    /\ pc' = "done"
    /\ UNCHANGED route

\* http.Error(w, msg, code).
HttpError(code) == resp' = [status |-> code, proxyAuthenticate |-> FALSE]

\* The authentication gate of combinedHandler.ServeHTTP (lines 130 and 143).
AuthRejects == ~simpleAuth.nil /\ ~ValidateProxyAuth(simpleAuth.token, req.ProxyAuth)

\* h.proxyHandler.ServeHTTP(w, r): proxy.Handler.ServeHTTP picks the handler by method.
ProxyServeHTTP ==
    /\ route' = "proxy"
    /\ pc' = IF req.Method = "CONNECT" THEN "connect" ELSE "http"
    /\ UNCHANGED resp

\* combinedHandler.ServeHTTP.
ServeHTTP ==
    /\ UNCHANGED notFE
    /\ pc = "recv"
    /\ IF req.Method = "CONNECT"
       THEN IF ~proxyHandler.nil
            THEN IF AuthRejects THEN Reject407 ELSE ProxyServeHTTP
            ELSE /\ HttpError(503)
                 /\ pc' = "done"
                 /\ UNCHANGED route
       ELSE IF req.IsAbs /\ ~proxyHandler.nil
            THEN IF AuthRejects THEN Reject407 ELSE ProxyServeHTTP
            ELSE /\ route' = "api"
                 /\ pc' = "done"
                 /\ UNCHANGED resp
    /\ UNCHANGED <<cfg, simpleAuth, proxyHandler, req, events,
                   targetConn, clientConn, copier, done>>

\* handleConnect lines 82-97: the outbound connection, through the upstream proxy
\* when one is configured and directly otherwise; on error 502 and return.
ConnectDial ==
    /\ UNCHANGED notFE
    /\ pc = "connect"
    /\ LET via == IF proxyHandler.upstreamURL THEN "dial-upstream" ELSE "dial-direct"
       IN  \/ /\ events' = events \o <<via, "dial-ok">>
              /\ targetConn' = "open"
              /\ pc' = "hijack"
              /\ UNCHANGED resp
           \/ /\ events' = events \o <<via, "dial-failed">>
              /\ HttpError(502)
              /\ pc' = "done"
              /\ UNCHANGED targetConn
    /\ UNCHANGED <<cfg, simpleAuth, proxyHandler, req, route, clientConn, copier, done>>

\* Hijack taking the inbound socket before the outbound connection is made.
Hijack_BeforeDial ==
    /\ UNCHANGED notFE
    /\ pc \in {"connect", "hijack"}
    /\ events' = Append(events, "hijack")
    /\ clientConn' = "open"
    /\ pc' = "write200"
    /\ UNCHANGED <<resp, targetConn>>
    /\ UNCHANGED <<cfg, simpleAuth, proxyHandler, req, route, copier, done>>

\* handleConnect lines 99-110: w.(http.Hijacker) and hijacker.Hijack(); on either
\* failure an error status is written and the deferred targetConn.Close() runs.
Hijack ==
    /\ UNCHANGED notFE
    /\ pc = "hijack"
    /\ \/ /\ events' = Append(events, "hijack")
          /\ clientConn' = "open"
          /\ pc' = "write200"
          /\ UNCHANGED <<resp, targetConn>>
       \/ /\ \E code \in {500, 503} : HttpError(code)
          /\ targetConn' = "closed"
          /\ pc' = "done"
          /\ UNCHANGED <<events, clientConn>>
    /\ UNCHANGED <<cfg, simpleAuth, proxyHandler, req, route, copier, done>>

\* handleConnect line 112: clientConn.Write("HTTP/1.1 200 Connection Established").
Write200 ==
    /\ UNCHANGED notFE
    /\ pc = "write200"
    /\ events' = Append(events, "200 Connection Established")
    /\ pc' = "relay"
    /\ UNCHANGED <<cfg, simpleAuth, proxyHandler, req, resp, route,
                   targetConn, clientConn, copier, done>>

\* handleConnect lines 114-124: the done channel and the two copy goroutines.
StartRelay ==
    /\ UNCHANGED notFE
    /\ pc = "relay"
    /\ events' = Append(events, "relay")
    /\ copier' = [c2t |-> "run", t2c |-> "run"]
    /\ pc' = "wait"
    /\ UNCHANGED <<cfg, simpleAuth, proxyHandler, req, resp, route,
                   targetConn, clientConn, done>>

\* One goroutine (lines 116-119 or 121-124): io.Copy returns on EOF or on an
\* error, then done <- struct{}{} (the channel has room for both signals).
CopyEnds(dir) ==
    /\ UNCHANGED notFE
    /\ copier[dir] = "run"
    /\ copier' = [copier EXCEPT ![dir] = "ended"]
    /\ done' = done + 1
    /\ UNCHANGED <<cfg, simpleAuth, proxyHandler, req, pc, resp, route, events,
                   targetConn, clientConn>>

\* ConnectReturn receiving from done once per copy goroutine before it returns.
ConnectReturn_WaitBoth ==
    /\ UNCHANGED notFE
    /\ pc = "wait"
    /\ done >= 2
    /\ done' = done - 2
    /\ events' = Append(events, "return")
    /\ clientConn' = "closed"
    /\ targetConn' = "closed"
    /\ pc' = "done"
    /\ UNCHANGED <<cfg, simpleAuth, proxyHandler, req, resp, route, copier>>

\* handleConnect lines 126-127: <-done, then the deferred clientConn.Close(),
\* targetConn.Close() and cancel().
ConnectReturn ==
    /\ UNCHANGED notFE
    /\ pc = "wait"
    /\ done >= 1
    /\ done' = done - 1
    /\ events' = Append(events, "return")
    /\ clientConn' = "closed"
    /\ targetConn' = "closed"
    /\ pc' = "done"
    /\ UNCHANGED <<cfg, simpleAuth, proxyHandler, req, resp, route, copier>>

\* Status codes an origin answers a forwarded request with.
OriginStatuses == {200, 404}

\* HandleHTTP without the r.URL.IsAbs() test: every request is forwarded.
HandleHTTP_NoAbsCheck ==
    /\ UNCHANGED notFE
    /\ pc = "http"
    /\ \/ /\ events' = events \o <<"new-client", "forward", "forward-failed">>
          /\ HttpError(502)
       \/ /\ events' = events \o <<"new-client", "forward", "forward-ok">>
          /\ \E st \in OriginStatuses : HttpError(st)
    /\ pc' = "done"
    /\ UNCHANGED <<cfg, simpleAuth, proxyHandler, req, route,
                   targetConn, clientConn, copier, done>>

\* HandleHTTP answering 200 when client.Do fails.
HandleHTTP_ErrorAsSuccess ==
    /\ UNCHANGED notFE
    /\ pc = "http"
    /\ IF ~req.IsAbs
       THEN /\ HttpError(400)
            /\ UNCHANGED events
       ELSE \/ /\ events' = events \o <<"new-client", "new-request-failed">>
               /\ HttpError(500)
            \/ /\ events' = events \o <<"new-client", "forward", "forward-failed">>
               /\ HttpError(200)
            \/ /\ events' = events \o <<"new-client", "forward", "forward-ok">>
               /\ \E st \in OriginStatuses : HttpError(st)
    /\ pc' = "done"
    /\ UNCHANGED <<cfg, simpleAuth, proxyHandler, req, route,
                   targetConn, clientConn, copier, done>>

\* handleHTTP lines 189-227: 400 for a relative URL (lines 190-193). Otherwise
\* transport.NewUTLSClient (line 197; it returns no error, utls_client.go lines
\* 205-212), http.NewRequestWithContext (500 on error, lines 203-207), then
\* client.Do(outReq): the transport dials the host of the request URL itself
\* (utls_client.go lines 122-142), h.upstreamURL is not consulted; 502 when Do
\* fails, else the origin's status.
HandleHTTP ==
    /\ UNCHANGED notFE
    /\ pc = "http"
    /\ IF ~req.IsAbs
       THEN /\ HttpError(400)
            /\ UNCHANGED events
       ELSE \/ /\ events' = events \o <<"new-client", "new-request-failed">>
               /\ HttpError(500)
            \/ /\ events' = events \o <<"new-client", "forward", "forward-failed">>
               /\ HttpError(502)
            \/ /\ events' = events \o <<"new-client", "forward", "forward-ok">>
               /\ \E st \in OriginStatuses : HttpError(st)
    /\ pc' = "done"
    /\ UNCHANGED <<cfg, simpleAuth, proxyHandler, req, route,
                   targetConn, clientConn, copier, done>>

FENext ==
    \/ ServeHTTP
    \/ ConnectDial
    \/ Hijack
    \/ Write200
    \/ StartRelay
    \/ \E dir \in {"c2t", "t2c"} : CopyEnds(dir)
    \/ ConnectReturn
    \/ HandleHTTP

\* A request given to proxy.Handler itself, or to the combined handler.
PXInit ==
    /\ cfg \in [ProxyToken : ProxyTokens, UpstreamProxy : UpstreamProxies]
    /\ simpleAuth = NewSimpleAuth(cfg)
    /\ proxyHandler = NewProxyHandler(cfg)
    /\ req \in [Method : {"CONNECT", "GET"}, IsAbs : BOOLEAN, ProxyAuth : ReqProxyAuths]
    /\ pc \in {"recv"} \cup (IF proxyHandler.nil THEN {} ELSE {"handler"})
    /\ resp = NoResp
    /\ route = "none"
    /\ events = <<>>
    /\ targetConn = "none"
    /\ clientConn = "none"
    /\ copier = [c2t |-> "off", t2c |-> "off"]
    /\ done = 0

\* proxy.Handler.ServeHTTP (handler.go lines 59-65) called with the request.
HandlerServeHTTP ==
    /\ UNCHANGED notFE
    /\ pc = "handler"
    /\ ProxyServeHTTP
    /\ UNCHANGED <<cfg, simpleAuth, proxyHandler, req, events,
                   targetConn, clientConn, copier, done>>

PXNext ==
    \/ HandlerServeHTTP
    \/ ServeHTTP
    \/ ConnectDial
    \/ Hijack
    \/ Write200
    \/ StartRelay
    \/ \E dir \in {"c2t", "t2c"} : CopyEnds(dir)
    \/ ConnectReturn
    \/ HandleHTTP

(***************************************************************************)
(* copyHeaders (proxy/handler.go).                                         *)
(***************************************************************************)
\* Most header names a source map holds.
MaxHeaders == 2

\* Most values one header of the source map has.
MaxVals == 2

\* handler.go lines 231-241.
hopByHop ==
    { "Connection", "Keep-Alive", "Proxy-Authenticate", "Proxy-Authorization",
      "Proxy-Connection", "Te", "Trailer", "Transfer-Encoding", "Upgrade" }

\* Keys of a source map: the hop-by-hop names, other canonical names, and keys
\* that are not in canonical form.
HeaderKeys == hopByHop \cup {"Accept", "User-Agent", "X-A", "x-a", "te"}

\* textproto.CanonicalMIMEHeaderKey on HeaderKeys, the key dst.Add stores under.
CanonicalKey(k) ==
    CASE k = "x-a" -> "X-A"
      [] k = "te" -> "Te"
      [] OTHER -> k

CanonicalKeys == {CanonicalKey(k) : k \in HeaderKeys}

HeaderValues == << "v1", "v2", "v3", "v4" >>

\* The value lists of a header: absent, or the first n of HeaderValues.
ValueLists == {SubSeq(HeaderValues, 1, n) : n \in 0..MaxVals}

Present(h) == {k \in DOMAIN h : h[k] # <<>>}

\* The source maps with the keys P present, each with one of the value lists.
MapsWithKeys(P) ==
    { [k \in HeaderKeys |-> IF k \in P THEN f[k] ELSE <<>>] :
        f \in [P -> ValueLists \ {<<>>}] }

SourceMaps ==
    UNION { MapsWithKeys(P) : P \in {Q \in SUBSET HeaderKeys : Cardinality(Q) <= MaxHeaders} }

EmptyDst == [k \in CanonicalKeys |-> <<>>]

\* Destinations: a fresh header map, and maps that already hold a value.
DestMaps ==
    { EmptyDst,
      [EmptyDst EXCEPT !["X-A"] = <<"d0">>],
      [EmptyDst EXCEPT !["Connection"] = <<"d0">>] }

HdrInit ==
    /\ hdrSrc \in SourceMaps
    /\ hdrDst \in DestMaps
    /\ hdrSrc0 = hdrSrc
    /\ hdrDst0 = hdrDst
    /\ hdrTodo = Present(hdrSrc)

\* AddValues with http.Header.Set in place of Add: the value replaces the list.
AddValues_Set(dstValues, values) == << values[Len(values)] >>

\* http.Header.Add for every value of one key (lines 247-249): the values are
\* appended, in order, to those the destination holds under the canonical key.
AddValues(dstValues, values) == dstValues \o values

\* One iteration of the range loop of copyHeaders (lines 243-250), for the key
\* the map iteration yields next (any key not yet visited).
CopyHeader ==
    /\ UNCHANGED notHdr
    /\ hdrTodo # {}
    /\ \E key \in hdrTodo :
         /\ hdrTodo' = hdrTodo \ {key}
         /\ IF key \in hopByHop
            THEN UNCHANGED hdrDst
            ELSE hdrDst' = [hdrDst EXCEPT ![CanonicalKey(key)] = AddValues(@, hdrSrc[key])]
    /\ UNCHANGED <<hdrSrc, hdrSrc0, hdrDst0>>

(***************************************************************************)
(* handleHTTP (proxy/handler.go lines 197-227): the headers and the status *)
(* of one forwarded absolute-URL request.                                  *)
(***************************************************************************)
\* The header maps net/http hands to a handler and returns from a transport
\* have their keys in canonical form.
CanonicalSourceMaps == {m \in SourceMaps : \A k \in Present(m) : CanonicalKey(k) = k}

\* Header maps of the responses an origin gives: none, an end-to-end header, a
\* hop-by-hop header, one of each.
OriginHeaderMaps ==
    UNION { MapsWithKeys(P) : P \in {{}, {"X-A"}, {"Connection"}, {"X-A", "Upgrade"}} }

\* Fingerprint.UserAgent of the handler's fingerprint.
UserAgent == <<"ua">>

\* CopyHeadersOver copying every key, the hop-by-hop ones included.
RECURSIVE CopyHeadersOver_NoFilter(_, _, _)
CopyHeadersOver_NoFilter(dst, src, todo) ==
    IF todo = {} THEN dst
    ELSE LET key == CHOOSE k \in todo : TRUE
         IN  CopyHeadersOver_NoFilter(
                 [dst EXCEPT ![CanonicalKey(key)] = AddValues(@, src[key])],
                 src, todo \ {key})

\* copyHeaders lines 243-250, the range loop over the keys of src still to
\* visit. The keys are taken in one order; with canonical keys in src no two
\* of them write the same key of dst, so every order gives the same dst.
RECURSIVE CopyHeadersOver(_, _, _)
CopyHeadersOver(dst, src, todo) ==
    IF todo = {} THEN dst
    ELSE LET key == CHOOSE k \in todo : TRUE
         IN  CopyHeadersOver(
                 IF key \in hopByHop
                 THEN dst
                 ELSE [dst EXCEPT ![CanonicalKey(key)] = AddValues(@, src[key])],
                 src, todo \ {key})

\* copyHeaders(dst, src), lines 230-251.
CopyHeaders(dst, src) == CopyHeadersOver(dst, src, Present(src))

\* http.Header.Del(key).
Del(h, key) == [h EXCEPT ![CanonicalKey(key)] = <<>>]

\* UTLSClient.Do lines 242-244: User-Agent is set when the request has none.
WithUserAgent(h) ==
    IF h["User-Agent"] = <<>> THEN [h EXCEPT !["User-Agent"] = UserAgent] ELSE h

NotSent == [k \in {} |-> <<>>]

FwdInit ==
    fwd \in [ pc : {"start"},
              inHdr : CanonicalSourceMaps,   \* r.Header
              outHdr : {EmptyDst},           \* outReq.Header
              sent : {NotSent},              \* the headers of the request given to the transport
              originStatus : {0},            \* resp.StatusCode
              originHdr : {EmptyDst},        \* resp.Header
              wHdr : {EmptyDst},             \* w.Header()
              wStatus : {0} ]                \* the status written to the client

\* handleHTTP lines 203-212: http.NewRequestWithContext (500 on error),
\* copyHeaders(outReq.Header, r.Header) and the two Header.Del calls.
FwdNewRequest ==
    /\ UNCHANGED notFwd
    /\ fwd.pc = "start"
    /\ \/ fwd' = [fwd EXCEPT !.wStatus = 500, !.pc = "done"]
       \/ fwd' = [fwd EXCEPT
                    !.outHdr = Del(Del(CopyHeaders(fwd.outHdr, fwd.inHdr),
                                       "Proxy-Connection"), "Proxy-Authorization"),
                    !.pc = "do"]

\* handleHTTP lines 214-219 with UTLSClient.Do lines 241-255: the request goes
\* to the transport; on error 502, otherwise the origin's response is at hand.
FwdDo ==
    /\ UNCHANGED notFwd
    /\ fwd.pc = "do"
    /\ LET out == WithUserAgent(fwd.outHdr)
       IN  \/ fwd' = [fwd EXCEPT !.outHdr = out, !.sent = out, !.wStatus = 502, !.pc = "done"]
           \/ \E st \in OriginStatuses, h \in OriginHeaderMaps :
                 fwd' = [fwd EXCEPT !.outHdr = out, !.sent = out,
                                    !.originStatus = st,
                                    !.originHdr = [k \in CanonicalKeys |-> h[k]],
                                    !.pc = "respond"]

\* handleHTTP lines 222-226: copyHeaders(w.Header(), resp.Header),
\* w.WriteHeader(resp.StatusCode) and the body copy.
FwdRespond ==
    /\ UNCHANGED notFwd
    /\ fwd.pc = "respond"
    /\ fwd' = [fwd EXCEPT !.wHdr = CopyHeaders(fwd.wHdr, fwd.originHdr),
                          !.wStatus = fwd.originStatus,
                          !.pc = "done"]

FwdNext == FwdNewRequest \/ FwdDo \/ FwdRespond

(***************************************************************************)
(* Handler.dialViaUpstreamProxy (proxy/handler.go lines 140-186), one call. *)
(***************************************************************************)
\* h.upstreamURL.Host, without and with a port.
UpstreamHosts == {<<"u", "p">>, <<"u", "p", ":", "3", "1", "2", "8">>}

\* h.upstreamURL.User.String() as bytes: no user information, or "u:p".
NoUser == <<>>

UpstreamUsers == {NoUser, <<117, Colon, 112>>}

\* Status codes the upstream proxy answers the CONNECT with.
UpstreamStatuses == {100, 200, 201, 204, 301, 403, 407, 502}

\* lines 146-149: the address dialed.
ProxyAddr(host) == IF Contains(host, ":") THEN host ELSE host \o <<":", "8", "0">>

\* lines 156-164: the CONNECT request written to the upstream.
ConnectReq(targetAddr, user) ==
    [ target |-> targetAddr,
      host |-> targetAddr,
      proxyAuthorization |-> IF user # NoUser THEN BasicPrefix \o B64Encode(user) ELSE <<>> ]

UpInit ==
    up \in [ pc : {"start"},
             host : UpstreamHosts,       \* h.upstreamURL.Host
             user : UpstreamUsers,       \* h.upstreamURL.User
             targetAddr : Addrs,         \* targetAddr
             dialed : {<<>>},            \* the address given to DialContext
             conn : {"none"},            \* conn: "none" | "open" | "closed"
             dials : {0},                \* TCP dials made
             written : {<<>>},           \* the CONNECT requests written, in order
             status : {0},               \* resp.StatusCode
             result : {"none"} ]         \* what the call returned: "conn" | "err"

\* lines 141-154: the TCP dial of the upstream.
UpDial ==
    /\ UNCHANGED notUp
    /\ up.pc = "start"
    /\ \/ up' = [up EXCEPT !.dialed = ProxyAddr(up.host), !.dials = @ + 1,
                          !.conn = "open", !.pc = "write"]
       \/ up' = [up EXCEPT !.dialed = ProxyAddr(up.host), !.dials = @ + 1,
                          !.result = "err", !.pc = "returned"]

\* lines 156-170: conn.Write(connectReq); on error conn.Close() and the error.
UpWrite ==
    /\ UNCHANGED notUp
    /\ up.pc = "write"
    /\ LET w == Append(up.written, ConnectReq(up.targetAddr, up.user))
       IN  \/ up' = [up EXCEPT !.written = w, !.pc = "read"]
           \/ up' = [up EXCEPT !.written = w, !.conn = "closed",
                               !.result = "err", !.pc = "returned"]

\* lines 172-178: http.ReadResponse; on a read error or a malformed response
\* conn.Close() and the error.
UpReadResponse ==
    /\ UNCHANGED notUp
    /\ up.pc = "read"
    /\ \/ \E st \in UpstreamStatuses : up' = [up EXCEPT !.status = st, !.pc = "check"]
       \/ up' = [up EXCEPT !.conn = "closed", !.result = "err", !.pc = "returned"]

\* UpCheckStatus accepting every 2xx status.
UpCheckStatus_Any2xx ==
    /\ UNCHANGED notUp
    /\ up.pc = "check"
    /\ IF up.status < 200 \/ up.status >= 300
       THEN up' = [up EXCEPT !.conn = "closed", !.result = "err", !.pc = "returned"]
       ELSE up' = [up EXCEPT !.result = "conn", !.pc = "returned"]

\* lines 180-185: resp.StatusCode != 200 closes the connection and returns an
\* error; otherwise the connection is returned.
UpCheckStatus ==
    /\ UNCHANGED notUp
    /\ up.pc = "check"
    /\ IF up.status # 200
       THEN up' = [up EXCEPT !.conn = "closed", !.result = "err", !.pc = "returned"]
       ELSE up' = [up EXCEPT !.result = "conn", !.pc = "returned"]

UpNext == UpDial \/ UpWrite \/ UpReadResponse \/ UpCheckStatus

(***************************************************************************)
(* Fingerprint selection by name: ScraperService.findFingerprint           *)
(* (scraper.go lines 87-100) and NewHandler (handler.go lines 32-43), over *)
(* transport.GetFingerprints. A name is a sequence of runes (code points). *)
(***************************************************************************)
\* fingerprints.go lines 15-33: the catalog, in order; Name as runes.
GetFingerprints ==
    << [Name |-> <<67, 104, 114, 111, 109, 101>>, ID |-> "HelloChrome_Auto"],
       [Name |-> <<70, 105, 114, 101, 102, 111, 120>>, ID |-> "HelloFirefox_Auto"],
       [Name |-> <<83, 97, 102, 97, 114, 105>>, ID |-> "HelloIOS_Auto"] >>

\* fingerprints.go lines 36-39.
GetRandomFingerprint == GetFingerprints[1]

\* The zero Fingerprint value.
ZeroFingerprint == [Name |-> <<>>, ID |-> ""]

\* U+017F LATIN SMALL LETTER LONG S.
LongS == 383

IsUpperASCII(r) == 65 <= r /\ r <= 90

IsLowerASCII(r) == 97 <= r /\ r <= 122

\* unicode.ToLower on the runes of the model: ASCII capitals map to their small
\* letters; small letters (the long s among them) and digits map to themselves.
ToLowerRune(r) == IF IsUpperASCII(r) THEN r + 32 ELSE r

\* unicode.ToUpper on the runes of the model; the long s maps to "S".
ToUpperRune(r) ==
    IF IsLowerASCII(r) THEN r - 32 ELSE IF r = LongS THEN 83 ELSE r

\* strings.ToLower.
ToLower(str) == [i \in 1..Len(str) |-> ToLowerRune(str[i])]

\* unicode.SimpleFold on the runes of the model: the next rune of the case
\* orbit; the orbit of "S" is S -> s -> long s -> S.
SimpleFold(r) ==
    IF r = 83 THEN 115
    ELSE IF r = 115 THEN LongS
    ELSE IF r = LongS THEN 83
    ELSE IF IsUpperASCII(r) THEN r + 32
    ELSE IF IsLowerASCII(r) THEN r - 32
    ELSE r

\* The loop of strings.EqualFold for one pair of runes sr < tr: fold sr until
\* the orbit returns to sr or passes tr.
RECURSIVE FoldReaches(_, _, _)
FoldReaches(r, sr, tr) ==
    IF r # sr /\ r < tr THEN FoldReaches(SimpleFold(r), sr, tr) ELSE r = tr

\* strings.EqualFold, one pair of runes.
EqualFoldRune(a, b) ==
    \/ a = b
    \/ LET sr == IF a < b THEN a ELSE b
           tr == IF a < b THEN b ELSE a
       IN  FoldReaches(SimpleFold(sr), sr, tr)

\* strings.EqualFold.
EqualFold(str, t) ==
    /\ Len(str) = Len(t)
    /\ \A i \in 1..Len(str) : EqualFoldRune(str[i], t[i])

\* findFingerprint lines 93-97 from catalog index i on.
RECURSIVE FindFrom(_, _)
FindFrom(i, lower) ==
    IF i > Len(GetFingerprints) THEN GetRandomFingerprint
    ELSE IF ToLower(GetFingerprints[i].Name) = lower THEN GetFingerprints[i]
    ELSE FindFrom(i + 1, lower)

\* ScraperService.findFingerprint, scraper.go lines 87-100.
FindFingerprint(name) ==
    IF name = <<>> THEN GetRandomFingerprint ELSE FindFrom(1, ToLower(name))

\* NewHandler lines 34-39 from catalog index i on: the first entry whose name
\* equals the configured one under EqualFold, else the zero value.
RECURSIVE MatchFrom(_, _)
MatchFrom(i, name) ==
    IF i > Len(GetFingerprints) THEN ZeroFingerprint
    ELSE IF EqualFold(GetFingerprints[i].Name, name) THEN GetFingerprints[i]
    ELSE MatchFrom(i + 1, name)

\* NewHandler, handler.go lines 32-43.
HandlerFingerprint(name) ==
    LET found == IF name # <<>> THEN MatchFrom(1, name) ELSE ZeroFingerprint
    IN  IF found.Name = <<>> THEN GetRandomFingerprint ELSE found

\* The spellings of one rune of a name: small, capital, and for "s" the long s.
Spellings(r) ==
    {ToLowerRune(r), ToUpperRune(r)} \cup (IF ToLowerRune(r) = 115 THEN {LongS} ELSE {})

\* All names made of the spellings of the runes of str.
RECURSIVE SpelledLike(_)
SpelledLike(str) ==
    IF str = <<>> THEN {<<>>}
    ELSE {<<r>> \o rest : r \in Spellings(Head(str)), rest \in SpelledLike(Tail(str))}

\* Names no catalog entry has: "Edge", "Chrom", "Chromee", "Safar1".
UnknownNames ==
    { <<69, 100, 103, 101>>, <<67, 104, 114, 111, 109>>,
      <<67, 104, 114, 111, 109, 101, 101>>, <<83, 97, 102, 97, 114, 49>> }

\* The names given: the empty name, every spelling of every catalog name,
\* the unknown names.
FingerprintNames ==
    {<<>>} \cup UnknownNames
      \cup UNION {SpelledLike(GetFingerprints[i].Name) : i \in 1..Len(GetFingerprints)}

FpInit ==
    fp \in [ pc : {"call"},
             name : FingerprintNames,         \* FetchRequest.Fingerprint / Config.Fingerprint
             scraper : {ZeroFingerprint},     \* what findFingerprint returned
             handler : {ZeroFingerprint} ]    \* h.fingerprint after NewHandler

\* Both selections made for the name.
SelectByName ==
    /\ UNCHANGED notFp
    /\ fp.pc = "call"
    /\ fp' = [fp EXCEPT !.scraper = FindFingerprint(fp.name),
                        !.handler = HandlerFingerprint(fp.name),
                        !.pc = "returned"]

(***************************************************************************)
(* ScraperService (scraper/scraper.go): FetchBatch, the FetchURL calls of  *)
(* its goroutines, the worker pool channel and the batch context.          *)
(***************************************************************************)
\* Most requests in a batch.
MaxBatch == 3

\* Largest worker pool size.
MaxWorkers == 2

\* FetchResponse.Error of a call cancelled at the admission gate (line 112).
ErrCancelled == "context cancelled while waiting for worker"

\* The zero FetchResponse, what make([]FetchResponse, n) holds (line 193).
ZeroResponse == [URL |-> 0, StatusCode |-> 0, Error |-> ""]

\* batch.Requests[i].URL: request i asks for URL i.
RequestURL(i) == i

\* A test that looks at the status code alone and ignores res.Error.
IsSuccess_StatusOnly(res) == res.StatusCode >= 200 /\ res.StatusCode < 400

\* FetchBatch line 208, the test of one result.
IsSuccess(res) == res.Error = "" /\ res.StatusCode >= 200 /\ res.StatusCode < 400

\* FetchBatch lines 206-213: the loop over results, from index i on; the pair
\* <<success, failed>>.
RECURSIVE TallyFrom(_, _, _, _)
TallyFrom(results, i, success, failed) ==
    IF i > Len(results) THEN <<success, failed>>
    ELSE IF IsSuccess(results[i])
         THEN TallyFrom(results, i + 1, success + 1, failed)
         ELSE TallyFrom(results, i + 1, success, failed + 1)

\* FetchBatch lines 206-220: the BatchResponse for the results.
BatchResponse(results) ==
    LET t == TallyFrom(results, 1, 0, 0)
    IN  [Results |-> results, Total |-> Len(results), Success |-> t[1], Failed |-> t[2]]

NoBatchResponse == [Results |-> <<>>, Total |-> 0, Success |-> 0, Failed |-> 0]

\* One FetchURL call: where it is, how often it took and gave back a worker
\* slot, how many requests it performed (client.Do), what it returned.
NewFetch == [pc |-> "unspawned", acquired |-> 0, released |-> 0, performed |-> 0]

\* NewScraperService (lines 56-61) with pool size W; FetchBatch called with n
\* requests (batchHandler lines 89-106: 0 < n).
ScInit ==
    sc \in [ pc : {"spawn"},                        \* FetchBatch: "spawn" | "wait" | "returned"
             n : 1..MaxBatch,                       \* len(batch.Requests)
             W : 1..MaxWorkers,                     \* cap(s.workerPool)
             pool : {0},                            \* len(s.workerPool)
             ctxDone : {FALSE},                     \* ctx.Done() is closed
             wg : {0},                              \* the WaitGroup counter
             fetch : {[i \in 1..MaxBatch |-> NewFetch]},
             results : {[i \in 1..MaxBatch |-> ZeroResponse]},
             resp : {NoBatchResponse} ]

Fetches == 1..sc.n

\* FetchBatch lines 196-202, one iteration: wg.Add(1) and the go statement
\* for request i; after the last one FetchBatch is at wg.Wait().
Spawn(i) ==
    /\ UNCHANGED notSc
    /\ sc.pc = "spawn"
    /\ i \in Fetches
    /\ sc.fetch[i].pc = "unspawned"
    /\ \A j \in 1..(i - 1) : sc.fetch[j].pc # "unspawned"
    /\ sc' = [sc EXCEPT !.wg = @ + 1,
                        !.fetch[i].pc = "gate",
                        !.pc = IF i = sc.n THEN "wait" ELSE "spawn"]

\* The context of the batch is cancelled (timeout of batchHandler line 103, or
\* the client going away).
CancelCtx ==
    /\ UNCHANGED notSc
    /\ sc.pc # "returned"
    /\ ~sc.ctxDone
    /\ sc' = [sc EXCEPT !.ctxDone = TRUE]

\* Acquire without the capacity of the channel: the send always succeeds.
Acquire_Unbounded(i) ==
    /\ UNCHANGED notSc
    /\ i \in Fetches
    /\ sc.fetch[i].pc = "gate"
    /\ sc' = [sc EXCEPT !.pool = @ + 1,
                        !.fetch[i].acquired = @ + 1,
                        !.fetch[i].pc = "work"]

\* FetchURL lines 106-108: the send on s.workerPool succeeds when the channel
\* has room; the release is deferred.
Acquire(i) ==
    /\ UNCHANGED notSc
    /\ i \in Fetches
    /\ sc.fetch[i].pc = "gate"
    /\ sc.pool < sc.W
    /\ sc' = [sc EXCEPT !.pool = @ + 1,
                        !.fetch[i].acquired = @ + 1,
                        !.fetch[i].pc = "work"]

\* The goroutine of FetchBatch (lines 198-201) after FetchURL returned res:
\* results[idx] = res, wg.Done().
Store(rec, i, res) ==
    [rec EXCEPT !.results[i] = res, !.wg = @ - 1, !.fetch[i].pc = "returned"]

\* FetchURL lines 109-113: ctx.Done() is ready; the call returns the error.
CancelledWaiting(i) ==
    /\ UNCHANGED notSc
    /\ i \in Fetches
    /\ sc.fetch[i].pc = "gate"
    /\ sc.ctxDone
    /\ sc' = Store(sc, i, [URL |-> RequestURL(i), StatusCode |-> 0, Error |-> ErrCancelled])

\* What FetchURL returns past the gate, with the number of requests performed:
\* request build error (lines 135-142), transport error (148-155), body read
\* error (167-175), success (182-188). getClient returns no error
\* (transport.NewUTLSClient never fails), so lines 117-123 are not taken.
FetchOutcomes(i) ==
    { [res |-> [URL |-> RequestURL(i), StatusCode |-> 0, Error |-> "failed to create request"],
       performed |-> 0],
      [res |-> [URL |-> RequestURL(i), StatusCode |-> 0, Error |-> "request failed"],
       performed |-> 1],
      [res |-> [URL |-> RequestURL(i), StatusCode |-> 200, Error |-> "failed to read body"],
       performed |-> 1] }
    \cup { [res |-> [URL |-> RequestURL(i), StatusCode |-> st, Error |-> ""], performed |-> 1] :
             st \in OriginStatuses }

\* Work releasing the worker slot only when the fetch succeeded.
Work_LeakOnError(i) ==
    /\ UNCHANGED notSc
    /\ i \in Fetches
    /\ sc.fetch[i].pc = "work"
    /\ \E o \in FetchOutcomes(i) :
         sc' = Store([sc EXCEPT !.pool = IF o.res.Error = "" THEN @ - 1 ELSE @,
                                !.fetch[i].released = IF o.res.Error = "" THEN @ + 1 ELSE @,
                                !.fetch[i].performed = @ + o.performed],
                     i, o.res)

\* FetchURL lines 116-188 and the deferred <-s.workerPool of line 108: the call
\* builds and performs its request and returns; the slot is given back on
\* every return.
Work(i) ==
    /\ UNCHANGED notSc
    /\ i \in Fetches
    /\ sc.fetch[i].pc = "work"
    /\ \E o \in FetchOutcomes(i) :
         sc' = Store([sc EXCEPT !.pool = @ - 1,
                                !.fetch[i].released = @ + 1,
                                !.fetch[i].performed = @ + o.performed],
                     i, o.res)

\* BatchReturn without wg.Wait(): the response is built at once.
BatchReturn_NoWait ==
    /\ UNCHANGED notSc
    /\ sc.pc = "wait"
    /\ sc' = [sc EXCEPT !.resp = BatchResponse(SubSeq(sc.results, 1, sc.n)),
                        !.pc = "returned"]

\* FetchBatch lines 204-220: wg.Wait() returns when the counter is zero, then
\* the tally and the response.
BatchReturn ==
    /\ UNCHANGED notSc
    /\ sc.pc = "wait"
    /\ sc.wg = 0
    /\ sc' = [sc EXCEPT !.resp = BatchResponse(SubSeq(sc.results, 1, sc.n)),
                        !.pc = "returned"]

ScNext ==
    \/ CancelCtx
    \/ BatchReturn
    \/ \E i \in 1..MaxBatch :
          \/ Spawn(i)
          \/ Acquire(i)
          \/ CancelledWaiting(i)
          \/ Work(i)

\* The tally of FetchBatch on its own: results of every kind, a status at and
\* around the limits 200 and 400, with and without an error.
TallyStatuses == {0, 199, 200, 399, 400}

TallyResults ==
    [URL : {1}, StatusCode : TallyStatuses, Error : {"", "request failed"}]

TlInit ==
    tl \in [ pc : {"call"},
             results : SeqsUpTo(TallyResults, MaxBatch),   \* results, after wg.Wait()
             resp : {NoBatchResponse} ]

\* FetchBatch lines 206-220.
Tally ==
    /\ UNCHANGED notTl
    /\ tl.pc = "call"
    /\ tl' = [tl EXCEPT !.resp = BatchResponse(tl.results), !.pc = "returned"]

(***************************************************************************)
(* ScraperService.FetchURL, lines 158-188: reading the body of the         *)
(* response. A stream of bytes is given by its length; what is read from   *)
(* it is the prefix of the length computed.                                *)
(***************************************************************************)
\* scraper.go:167, the argument of io.LimitReader.
BodyLimit == 10 * 1024 * 1024

\* Lengths of the streams the origin sends, around the limit.
BodyLengths == {0, 1, BodyLimit - 1, BodyLimit, BodyLimit + 1, 2 * BodyLimit}

\* The responses client.Do returns: the status, the Content-Encoding header,
\* the length of the stream on the wire, whether gzip.NewReader accepts its
\* header and the length of what it decodes to, and whether reading the
\* stream fails.
OriginResponses ==
    { r \in [ StatusCode      : {200, 404},
              ContentEncoding : {"", "gzip"},
              wireLen         : BodyLengths,
              gzipOk          : BOOLEAN,
              decodedLen      : BodyLengths,
              readFails       : BOOLEAN ] :
        r.ContentEncoding = "" => (~r.gzipOk /\ r.decodedLen = r.wireLen) }

\* lines 158-165: reader is resp.Body, or the gzip reader over it when the
\* response says gzip and gzip.NewReader returned no error. Its length.
ReaderLen(r) ==
    IF r.ContentEncoding = "gzip" /\ r.gzipOk THEN r.decodedLen ELSE r.wireLen

Min(a, b) == IF a <= b THEN a ELSE b

\* io.LimitReader(reader, n): the stream ends after n bytes or at the end of
\* reader, whichever comes first.
LimitReader(len, n) == Min(len, n)

\* lines 167-188: io.ReadAll over the limited reader, then the FetchResponse.
FetchBody(r) ==
    IF r.readFails
    THEN [StatusCode |-> r.StatusCode, Error |-> "failed to read body", Body |-> 0]
    ELSE [StatusCode |-> r.StatusCode, Error |-> "",
          Body |-> LimitReader(ReaderLen(r), BodyLimit)]

BdInit ==
    \E r \in OriginResponses :
        bd = [pc |-> "read", resp |-> r,
              res |-> [StatusCode |-> 0, Error |-> "", Body |-> 0]]

ReadBody ==
    /\ UNCHANGED notBd
    /\ bd.pc = "read"
    /\ bd' = [bd EXCEPT !.res = FetchBody(bd.resp), !.pc = "returned"]

(***************************************************************************)
(* The blocking steps of one inbound request and the request's context.    *)
(* A fetch (FetchURL, UTLSClient.Do, RoundTrip, dialUTLS) waits for a      *)
(* worker slot, dials, handshakes, issues the request and reads the body;  *)
(* a forward (handleHTTP) does the same without the slot;                  *)
(* a CONNECT (handleConnect) dials the target or goes through the upstream *)
(* proxy (dialViaUpstreamProxy: dial, write, read) and then runs the two   *)
(* io.Copy loops of the tunnel.                                            *)
(***************************************************************************)
CxPaths == {"fetch", "forward", "connect-direct", "connect-upstream"}

\* The first blocking step of each path.
FirstStep(path) == IF path = "fetch" THEN "slot" ELSE "dial"

\* The step that follows a step that succeeded.
NextStep(path, step) ==
    IF path = "fetch"
    THEN CASE step = "slot"      -> "dial"
           [] step = "dial"      -> "handshake"
           [] step = "handshake" -> "io"
           [] step = "io"        -> "body"
           [] OTHER              -> "done"
    ELSE IF path = "forward"
    THEN CASE step = "dial"      -> "handshake"
           [] step = "handshake" -> "io"
           [] step = "io"        -> "body"
           [] OTHER              -> "done"
    ELSE IF path = "connect-direct"
    THEN CASE step = "dial"      -> "tunnel"
           [] OTHER              -> "done"
    ELSE CASE step = "dial"      -> "write"
           [] step = "write"     -> "read"
           [] step = "read"      -> "tunnel"
           [] OTHER              -> "done"

\* The steps that take the request's context and return when it is done:
\* the select on ctx.Done() (scraper.go:106-114), DialContext (utls_client.go:90,
\* handler.go:136 and 151), RoundTrip of a request made with the context and the
\* read of its response body (scraper.go:136, 150, 167). conn.Write and
\* http.ReadResponse on the upstream connection (handler.go:166, 173) and the
\* io.Copy loops (handler.go:116-124) take no context and set no deadline.
HonoursCtx(step) == step \in {"slot", "dial", "io", "body"}

\* handleConnect lines 83-84, fetchHandler / batchHandler: the context has a
\* deadline and can be cancelled before it.
CxInit ==
    \E path \in CxPaths :
        cx = [pc |-> FirstStep(path), path |-> path, ctx |-> "live",
              c2t |-> "off", t2c |-> "off", how |-> "", endedIn |-> ""]

EnterStep(rec, step) ==
    IF step = "tunnel"
    THEN [rec EXCEPT !.pc = step, !.c2t = "run", !.t2c = "run"]
    ELSE [rec EXCEPT !.pc = step,
                     !.how = IF step = "done" THEN "ok" ELSE @,
                     !.endedIn = IF step = "done" THEN rec.pc ELSE @]

\* The context is cancelled by the caller or reaches its deadline.
CxCtxDone ==
    /\ UNCHANGED notCx
    /\ cx.pc # "done"
    /\ cx.ctx = "live"
    /\ \E cause \in {"cancelled", "deadline"} : cx' = [cx EXCEPT !.ctx = cause]

\* The peer (or, for the slot, another fetch releasing one) lets the current
\* step finish: it succeeds and the next step starts, or it fails and the
\* request ends.
CxPeerStep ==
    /\ UNCHANGED notCx
    /\ cx.pc \notin {"done", "tunnel"}
    /\ \/ cx' = EnterStep(cx, NextStep(cx.path, cx.pc))
       \/ /\ cx.pc # "slot"
          /\ cx' = [cx EXCEPT !.pc = "done", !.how = "peer", !.endedIn = cx.pc]

\* One side of the tunnel closes or fails: that io.Copy returns and signals done.
CxCopyEnds ==
    /\ UNCHANGED notCx
    /\ cx.pc = "tunnel"
    /\ \/ cx.c2t = "run" /\ cx' = [cx EXCEPT !.c2t = "ended"]
       \/ cx.t2c = "run" /\ cx' = [cx EXCEPT !.t2c = "ended"]

\* handleConnect line 126 and the deferred Close calls (97, 110): after the
\* first signal the handler returns and closes both connections, which ends
\* the other copy.
CxTunnelReturn ==
    /\ UNCHANGED notCx
    /\ cx.pc = "tunnel"
    /\ "ended" \in {cx.c2t, cx.t2c}
    /\ cx' = [cx EXCEPT !.pc = "done", !.how = "ok", !.endedIn = "tunnel",
                        !.c2t = "ended", !.t2c = "ended"]

\* A step that watches the context returns its error once the context is done.
CxHonour ==
    /\ UNCHANGED notCx
    /\ cx.ctx # "live"
    /\ HonoursCtx(cx.pc)
    /\ cx' = [cx EXCEPT !.pc = "done", !.how = "ctx", !.endedIn = cx.pc]

\* dialUTLS lines 100-109: uConn.Handshake() takes no context; the connection
\* carries the context's deadline (or now + tlsTimeout), and the handshake
\* fails when that time comes.
CxHandshakeDeadline ==
    /\ UNCHANGED notCx
    /\ cx.pc = "handshake"
    /\ cx' = [cx EXCEPT !.pc = "done", !.how = "timer", !.endedIn = "handshake",
                        !.ctx = IF @ = "live" THEN "deadline" ELSE @]

CxNext ==
    \/ CxCtxDone
    \/ CxPeerStep
    \/ CxCopyEnds
    \/ CxTunnelReturn
    \/ CxHonour
    \/ CxHandshakeDeadline

(***************************************************************************)
(* utlsRoundTripper.RoundTrip statement by statement, with h2ConnPoolMu.   *)
(* Concurrent https calls on one round tripper; every lock operation, map  *)
(* access, dial, handshake and request is a step of its own.               *)
(***************************************************************************)
\* Number of concurrent RoundTrip calls.
NLockCalls == 2

LockCalls == 1..NLockCalls

\* No call holds the write lock.
NoCall == 0

\* The destinations of the calls.
LockAddrs == {PoolKey(HostA), PoolKey(HostB)}

LkIdleCall ==
    [ pc       |-> "idle",   \* the statement the call is at
      addr     |-> <<>>,     \* addr (lines 122-125)
      got      |-> NoConn,   \* h2Conn read at line 128
      conn     |-> "none",   \* the call's own connection: "none" | "tcp" | "tls" | "closed"
      alpn     |-> "none",   \* negotiatedProto
      path     |-> "none",   \* the branch of the switch taken: "h2" | "h1" | "unsupported"
      switches |-> 0,        \* evaluations of the switch at line 151
      ownUsed  |-> FALSE,    \* the request was issued on the call's own connection
      result   |-> "none" ]  \* "ok" | "err"

\* newUTLSRoundTripper: an empty pool, the mutex free.
LkInit ==
    lk = [ pool    |-> [k \in LockAddrs |-> NoConn],
           readers |-> {},          \* calls holding h2ConnPoolMu.RLock
           writer  |-> NoCall,      \* the call holding h2ConnPoolMu.Lock
           log     |-> <<>>,        \* the writes to the pool, in order: <<op, key, call>>
           call    |-> [c \in LockCalls |-> LkIdleCall] ]

LkAt(c, p) == lk.call[c].pc = p

LkSet(c, rec) == [lk EXCEPT !.call[c] = rec]

LkFinish(rec, res) == [rec EXCEPT !.pc = "done", !.result = res]

\* The calls are numbered in the order in which they enter RoundTrip.
LkNextToArrive(c) == \A d \in LockCalls : d < c => lk.call[d].pc # "idle"

\* lines 118-125 for an https request: addr.
LkEnter(c) ==
    /\ UNCHANGED notLk
    /\ LkAt(c, "idle")
    /\ LkNextToArrive(c)
    /\ \E k \in LockAddrs :
         lk' = LkSet(c, [lk.call[c] EXCEPT !.addr = k, !.pc = "rlock"])

\* line 127: rt.h2ConnPoolMu.RLock(), granted while no call holds the write lock.
MuRLock(c) ==
    /\ UNCHANGED notLk
    /\ LkAt(c, "rlock")
    /\ lk.writer = NoCall
    /\ lk' = [LkSet(c, [lk.call[c] EXCEPT !.pc = "read"]) EXCEPT !.readers = @ \cup {c}]

\* The pool read followed by the request on the session, with the read lock
\* kept until the request has returned.
LkRead_HoldLock(c) ==
    /\ UNCHANGED notLk
    /\ LkAt(c, "read")
    /\ lk' = LkSet(c, [lk.call[c] EXCEPT !.got = lk.pool[lk.call[c].addr], !.pc = "check"])

\* lines 128-129: h2Conn, exists := rt.h2ConnPool[addr]; RUnlock().
LkRead(c) ==
    /\ UNCHANGED notLk
    /\ LkAt(c, "read")
    /\ lk' = [LkSet(c, [lk.call[c] EXCEPT !.got = lk.pool[lk.call[c].addr], !.pc = "check"])
                EXCEPT !.readers = @ \ {c}]

\* line 131: exists && h2Conn.CanTakeNewRequest().
LkCanTake(c) ==
    /\ UNCHANGED notLk
    /\ LkAt(c, "check")
    /\ \E can \in BOOLEAN :
         lk' = LkSet(c, [lk.call[c] EXCEPT
                           !.pc = IF lk.call[c].got # NoConn /\ can THEN "pooled-io" ELSE "dial"])

\* lines 132-135: h2Conn.RoundTrip(req) on the pooled session.
LkPooledIO(c) ==
    /\ UNCHANGED notLk
    /\ LkAt(c, "pooled-io")
    /\ \/ lk' = LkSet(c, LkFinish(lk.call[c], "ok"))
       \/ lk' = LkSet(c, [lk.call[c] EXCEPT !.pc = "lock-delete"])

\* lines 136 and 176: rt.h2ConnPoolMu.Lock(), granted while no call holds the
\* mutex in either mode.
MuLock(c) ==
    /\ UNCHANGED notLk
    /\ lk.call[c].pc \in {"lock-delete", "lock-insert"}
    /\ lk.writer = NoCall
    /\ lk.readers = {}
    /\ lk' = [LkSet(c, [lk.call[c] EXCEPT
                          !.pc = IF lk.call[c].pc = "lock-delete" THEN "delete" ELSE "insert"])
                EXCEPT !.writer = c]

\* lines 137-139: delete(rt.h2ConnPool, addr); Unlock(); control continues at 141.
LkDelete(c) ==
    /\ UNCHANGED notLk
    /\ LkAt(c, "delete")
    /\ lk' = [LkSet(c, [lk.call[c] EXCEPT !.pc = "dial"])
                EXCEPT !.pool[lk.call[c].addr] = NoConn,
                       !.log = Append(@, <<"delete", lk.call[c].addr, c>>),
                       !.writer = NoCall]

\* dialUTLS line 90: rt.dialer.DialContext.
LkDial(c) ==
    /\ UNCHANGED notLk
    /\ LkAt(c, "dial")
    /\ \/ lk' = LkSet(c, [lk.call[c] EXCEPT !.conn = "tcp", !.pc = "handshake"])
       \/ lk' = LkSet(c, LkFinish(lk.call[c], "err"))

\* dialUTLS lines 95-113 and RoundTrip line 147: uConn.Handshake(); on error
\* conn.Close(); on success the negotiated protocol is read.
LkHandshake(c) ==
    /\ UNCHANGED notLk
    /\ LkAt(c, "handshake")
    /\ \/ \E p \in ALPNValues :
            lk' = LkSet(c, [lk.call[c] EXCEPT !.conn = "tls", !.alpn = p, !.pc = "switch"])
       \/ lk' = LkSet(c, LkFinish([lk.call[c] EXCEPT !.conn = "closed"], "err"))

\* The switch taking the HTTP/2 branch whatever was negotiated.
LkSwitch_AlwaysH2(c) ==
    /\ UNCHANGED notLk
    /\ LkAt(c, "switch")
    /\ lk' = LkSet(c, [lk.call[c] EXCEPT !.switches = @ + 1, !.path = "h2",
                                         !.pc = "new-client-conn"])

\* lines 151-159: switch negotiatedProto.
LkSwitch(c) ==
    /\ UNCHANGED notLk
    /\ LkAt(c, "switch")
    /\ LET rec == [lk.call[c] EXCEPT !.switches = @ + 1]
           p == lk.call[c].alpn
       IN  lk' = LkSet(c,
                  IF p = "h2" THEN [rec EXCEPT !.path = "h2", !.pc = "new-client-conn"]
                  ELSE IF p \in {"http/1.1", ""} THEN [rec EXCEPT !.path = "h1", !.pc = "h1-io"]
                  ELSE LkFinish([rec EXCEPT !.path = "unsupported", !.conn = "closed"], "err"))

\* roundTripH2 lines 164-174: h2Transport.NewClientConn(conn).
LkNewClientConn(c) ==
    /\ UNCHANGED notLk
    /\ LkAt(c, "new-client-conn")
    /\ \/ lk' = LkSet(c, [lk.call[c] EXCEPT !.pc = "lock-insert"])
       \/ lk' = LkSet(c, LkFinish([lk.call[c] EXCEPT !.conn = "closed"], "err"))

\* The store that leaves an entry already in the pool in place.
LkInsert_KeepFirst(c) ==
    /\ UNCHANGED notLk
    /\ LkAt(c, "insert")
    /\ lk' = [LkSet(c, [lk.call[c] EXCEPT !.pc = "h2-io"])
                EXCEPT !.pool[lk.call[c].addr] = IF @ = NoConn THEN c ELSE @,
                       !.log = Append(@, <<"insert", lk.call[c].addr, c>>),
                       !.writer = NoCall]

\* roundTripH2 lines 177-178: rt.h2ConnPool[addr] = h2Conn; Unlock().
LkInsert(c) ==
    /\ UNCHANGED notLk
    /\ LkAt(c, "insert")
    /\ lk' = [LkSet(c, [lk.call[c] EXCEPT !.pc = "h2-io"])
                EXCEPT !.pool[lk.call[c].addr] = c,
                       !.log = Append(@, <<"insert", lk.call[c].addr, c>>),
                       !.writer = NoCall]

\* roundTripH2 line 180: return h2Conn.RoundTrip(req), on the call's own session.
LkH2IO(c) ==
    /\ UNCHANGED notLk
    /\ LkAt(c, "h2-io")
    /\ \E res \in {"ok", "err"} :
         lk' = LkSet(c, LkFinish([lk.call[c] EXCEPT !.ownUsed = TRUE], res))

\* roundTripH1 lines 195-201: transport.RoundTrip(req) over the connection; on
\* error conn.Close().
LkH1IO(c) ==
    /\ UNCHANGED notLk
    /\ LkAt(c, "h1-io")
    /\ \/ lk' = LkSet(c, LkFinish([lk.call[c] EXCEPT !.ownUsed = TRUE], "ok"))
       \/ lk' = LkSet(c, LkFinish([lk.call[c] EXCEPT !.ownUsed = TRUE, !.conn = "closed"], "err"))

LkNext ==
    \E c \in LockCalls :
        \/ LkEnter(c)
        \/ MuRLock(c)
        \/ LkRead(c)
        \/ LkCanTake(c)
        \/ LkPooledIO(c)
        \/ MuLock(c)
        \/ LkDelete(c)
        \/ LkDial(c)
        \/ LkHandshake(c)
        \/ LkSwitch(c)
        \/ LkNewClientConn(c)
        \/ LkInsert(c)
        \/ LkH2IO(c)
        \/ LkH1IO(c)

(***************************************************************************)
(* The dial address computed from a host: RoundTrip lines 122-125 (PoolKey *)
(* above) and handleConnect lines 71-74.                                   *)
(***************************************************************************)
\* Hosts without a port: DNS names, an IPv4 literal, bracketed IPv6 literals.
BareHosts ==
    { <<"a">>,
      <<"a", ".", "b">>,
      <<"l", "o", "c", "a", "l", "h", "o", "s", "t">>,
      <<"1", ".", "2", ".", "3", ".", "4">>,
      <<"[", ":", ":", "1", "]">>,
      <<"[", "1", ":", ":", "2", "]">>,
      <<"[", "f", "e", "8", "0", ":", ":", "1", "]">> }

\* The port suffixes a host is given with.
PortSuffixes == { <<>>, <<":", "4", "4", "3">>, <<":", "8", "0">>, <<":", "8", "4", "4", "3">> }

\* req.URL.Host / r.Host values.
HostForms == { h \o p : h \in BareHosts, p \in PortSuffixes }

\* handleConnect lines 71-74: targetAddr := r.Host; append ":443" when it
\* holds no colon.
TargetAddr(host) == IF Contains(host, ":") THEN host ELSE host \o <<":", "4", "4", "3">>

HpInit ==
    \E f \in {"RoundTrip", "handleConnect"}, h \in HostForms :
        hp = [pc |-> "call", fn |-> f, host |-> h, addr |-> <<>>]

ResolveAddr ==
    /\ UNCHANGED notHp
    /\ hp.pc = "call"
    /\ hp' = [hp EXCEPT !.addr = IF hp.fn = "RoundTrip" THEN PoolKey(hp.host)
                                                         ELSE TargetAddr(hp.host),
                        !.pc = "returned"]

(***************************************************************************)
(* Specifications: each one runs one component and leaves the others at    *)
(* rest.                                                                   *)
(***************************************************************************)
\* No proxy-authentication call is in progress.
AuthIdle ==
    /\ authToken = <<>>
    /\ authHeader = <<>>
    /\ authResult = FALSE
    /\ authPc = "call"

\* No inbound request.
FEIdle ==
    /\ cfg = [ProxyToken |-> Empty, UpstreamProxy |-> ""]
    /\ simpleAuth = NewSimpleAuth(cfg)
    /\ proxyHandler = NewProxyHandler(cfg)
    /\ req = [Method |-> "GET", IsAbs |-> FALSE, ProxyAuth |-> Empty]
    /\ pc = "done"
    /\ resp = NoResp
    /\ route = "none"
    /\ events = <<>>
    /\ targetConn = "none"
    /\ clientConn = "none"
    /\ copier = [c2t |-> "off", t2c |-> "off"]
    /\ done = 0

\* No copyHeaders call.
HdrIdle ==
    /\ hdrSrc = <<>>
    /\ hdrDst = <<>>
    /\ hdrSrc0 = <<>>
    /\ hdrDst0 = <<>>
    /\ hdrTodo = {}

\* No forward, no upstream dial, no fingerprint selection, no fetch, no tally.
Idle == [pc |-> "idle"]

FwdIdle == fwd = Idle

UpIdle == up = Idle

FpIdle == fp = Idle

ScIdle == sc = Idle

TlIdle == tl = Idle

LkIdle == lk = Idle

BdIdle == bd = Idle

CxIdle == cx = Idle

HpIdle == hp = Idle

LateIdle == LkIdle /\ BdIdle /\ CxIdle /\ HpIdle

DcIdle == dc = Idle

HfIdle == hf = Idle

GcIdle == gc = Idle

LastIdle == DcIdle /\ HfIdle /\ GcIdle

MoreIdle == FwdIdle /\ UpIdle /\ FpIdle /\ ScIdle /\ TlIdle /\ LateIdle /\ LastIdle

FirstIdle == RTInit /\ AuthIdle /\ FEIdle /\ HdrIdle

\* RoundTrip calls on one utlsRoundTripper.
InitRT == RTInit /\ AuthIdle /\ FEIdle /\ HdrIdle /\ MoreIdle

SpecRT == InitRT /\ [][RTNext]_vars

\* One ValidateProxyAuth call.
InitAuth == AuthInit /\ RTInit /\ FEIdle /\ HdrIdle /\ MoreIdle

SpecAuth == InitAuth /\ [][Validate]_vars

\* One inbound request through the combined frontend.
InitFE == FEInit /\ RTInit /\ AuthIdle /\ HdrIdle /\ MoreIdle

SpecFE == InitFE /\ [][FENext]_vars

\* One copyHeaders call.
InitHdr == HdrInit /\ RTInit /\ AuthIdle /\ FEIdle /\ MoreIdle

SpecHdr == InitHdr /\ [][CopyHeader]_vars

\* One inbound request, through the combined frontend or given to proxy.Handler
\* directly.
InitPX == PXInit /\ RTInit /\ AuthIdle /\ HdrIdle /\ MoreIdle

SpecPX == InitPX /\ [][PXNext]_vars

\* One dialViaUpstreamProxy call.
InitUp == UpInit /\ FirstIdle /\ FwdIdle /\ FpIdle /\ ScIdle /\ TlIdle /\ LateIdle /\ LastIdle

SpecUp == InitUp /\ [][UpNext]_vars

\* One fingerprint name, selected by findFingerprint and by NewHandler.
InitFp == FpInit /\ FirstIdle /\ FwdIdle /\ UpIdle /\ ScIdle /\ TlIdle /\ LateIdle /\ LastIdle

SpecFp == InitFp /\ [][SelectByName]_vars

\* One FetchBatch call on a ScraperService.
InitSc == ScInit /\ FirstIdle /\ FwdIdle /\ UpIdle /\ FpIdle /\ TlIdle /\ LateIdle /\ LastIdle

SpecSc == InitSc /\ [][ScNext]_vars

\* The tally of one FetchBatch call.
InitTl == TlInit /\ FirstIdle /\ FwdIdle /\ UpIdle /\ FpIdle /\ ScIdle /\ LateIdle /\ LastIdle

SpecTl == InitTl /\ [][Tally]_vars

\* One absolute-URL request forwarded by handleHTTP.
InitFwd == FwdInit /\ FirstIdle /\ UpIdle /\ FpIdle /\ ScIdle /\ TlIdle /\ LateIdle /\ LastIdle

SpecFwd == InitFwd /\ [][FwdNext]_vars

(***************************************************************************)
(* Properties of the HTTP/2 session pool and of RoundTrip.                 *)
(***************************************************************************)
OthersQuiet(c) == \A d \in Calls \ {c} : call[d].pc \in {"idle", "done"}

KnownALPN == {"h2", "http/1.1", ""}

\* C1: a session is installed under a key only when the pool holds no entry
\* for that key (a failed or stale entry is deleted first), so no insert
\* overwrites an entry that is still in the pool.
C1_InsertOnlyWhenAbsent ==
    [][\A k \in Addrs :
          (h2ConnPool'[k] # NoConn /\ h2ConnPool'[k] # h2ConnPool[k])
              => h2ConnPool[k] = NoConn]_vars

\* C2 as stated: once a RoundTrip that negotiated "h2" has returned (no other
\* call having run), the pool holds the entry for its destination.
C2_EntryAfterH2Negotiation ==
    \A c \in Calls :
        (call[c].alpn = "h2" /\ call[c].pc = "done"
            /\ \A d \in Calls \ {c} : call[d].pc = "idle")
        => h2ConnPool[call[c].addr] = c

\* C2 amended: when a RoundTrip negotiated "h2" and the HTTP/2 session was
\* created on the connection, the session is stored under the destination key
\* and no other key changes; a RoundTrip that finds a pooled session with spare
\* capacity and whose request succeeds on it is served by that session, with
\* no TCP dial, no TLS handshake, one request on the wire and the pool unchanged.
C2_PooledSessionReused ==
    [][\A c \in Calls :
          /\ (call[c].pc = "dial" /\ call'[c].pc = "h2rt")
                => /\ call'[c].alpn = "h2"
                   /\ h2ConnPool'[call[c].addr] = c
                   /\ \A k \in Addrs \ {call[c].addr} : h2ConnPool'[k] = h2ConnPool[k]
          /\ (call[c].pc = "idle" /\ call'[c].pc = "check")
                => call'[c].got = h2ConnPool[call'[c].addr]
          /\ (call[c].pc = "check" /\ call'[c].pc = "done")
                => /\ call[c].got # NoConn
                   /\ call'[c].servedBy = call[c].got
                   /\ call'[c].result = "ok"
                   /\ h2ConnPool' = h2ConnPool
                   /\ conn' = conn
          /\ (call'[c].pc = "done" /\ call'[c].result = "ok"
                  /\ call'[c].scheme = "https" /\ call'[c].servedBy # c)
                => /\ call'[c].servedBy # NoConn
                   /\ call'[c].dials = 0
                   /\ call'[c].handshakes = 0
                   /\ call'[c].issued = 1
                   /\ call'[c].writes = 0
                   /\ conn'[c] = "none"]_vars

\* C2 witness: a call was served by a session another call pooled, which is
\* still the pool entry of the destination.
C2_Witness ==
    \E c \in Calls :
        /\ call[c].pc = "done" /\ call[c].result = "ok"
        /\ call[c].servedBy \notin {NoConn, c}
        /\ call[c].dials = 0
        /\ h2ConnPool[call[c].addr] = call[c].servedBy

\* C3: when the request fails on a reused pooled session the call returns an
\* error without retrying: the request is on the wire at most once and the
\* call makes no dial and no handshake after the failure.
C3_NoRetryAfterPooledFailure ==
    \A c \in Calls :
        call[c].pooledFailed
        => /\ call[c].issued <= 1
           /\ call[c].dials = 0
           /\ call[c].handshakes = 0
           /\ (call[c].pc = "done" => call[c].result = "err")

\* C4: after a RoundTrip failed on a pooled session and returned, with no other
\* call running and no other call's session pooled under the key, the pool
\* holds no entry for the key (so the next call has to dial afresh).
C4_NoEntryAfterPooledFailure ==
    \A c \in Calls :
        (/\ call[c].pooledFailed
         /\ call[c].pc = "done"
         /\ OthersQuiet(c)
         /\ h2ConnPool[call[c].addr] \notin Calls \ {c})
        => h2ConnPool[call[c].addr] = NoConn

\* C5: when the completed handshake negotiated a protocol other than "h2",
\* "http/1.1" and "", RoundTrip returns an error, the new connection is closed,
\* no request is ever issued on it, and the step leaves the pool unchanged
\* (the connection is never pooled).
C5_UnsupportedProtocolClosed ==
    [][\A c \in Calls :
          (call'[c].alpn \notin KnownALPN \cup {"none"})
          => /\ call'[c].pc = "done"
             /\ call'[c].result = "err"
             /\ conn'[c] = "closed"
             /\ ~connUsed'[c]
             /\ \A k \in Addrs : h2ConnPool'[k] # c
             /\ (call[c].alpn = "none"
                   => /\ h2ConnPool' = h2ConnPool
                      /\ call'[c].issued = call[c].issued
                      /\ call'[c].writes = call[c].writes)]_vars

\* C5 witness: a call whose handshake negotiated an unsupported protocol returned.
C5_Witness ==
    \E c \in Calls :
        /\ call[c].alpn = "spdy/3.1"
        /\ call[c].pc = "done"
        /\ conn[c] = "closed"


(***************************************************************************)
(* Properties of ValidateProxyAuth.                                        *)
(***************************************************************************)
\* The header is "Basic " followed by base64 that decodes to user ++ ":" ++ token
\* for some user string, of any content.
CarriesToken(token, header) ==
    /\ HasPrefix(header, BasicPrefix)
    /\ LET d == B64Decode(SubSeq(header, 7, Len(header)))
       IN  /\ d.ok
           /\ \E i \in 1..Len(d.bytes) :
                 /\ d.bytes[i] = Colon
                 /\ SubSeq(d.bytes, i + 1, Len(d.bytes)) = token

\* As CarriesToken, for a user string that holds no colon.
CarriesTokenColonFreeUser(token, header) ==
    /\ HasPrefix(header, BasicPrefix)
    /\ LET d == B64Decode(SubSeq(header, 7, Len(header)))
       IN  /\ d.ok
           /\ \E i \in 1..Len(d.bytes) :
                 /\ d.bytes[i] = Colon
                 /\ \A j \in 1..(i - 1) : d.bytes[j] # Colon
                 /\ SubSeq(d.bytes, i + 1, Len(d.bytes)) = token

Happened(e) == \E i \in 1..Len(events) : events[i] = e

\* Event a happened, and before any event b.
Before(a, b) ==
    \E i \in 1..Len(events) :
        /\ events[i] = a
        /\ \A j \in 1..i : events[j] # b

DialEvents == {"dial-direct", "dial-upstream", "forward"}

\* C6: for every configuration, an unset proxy token included, a CONNECT or
\* absolute-URL request that does not carry valid credentials for the
\* configured token gets 407 with Proxy-Authenticate, never reaches
\* proxy.Handler.ServeHTTP, and causes no outbound dial or forward.
C6_EveryProxyRequestAuthenticated ==
    (/\ pc # "recv"
     /\ ~proxyHandler.nil
     /\ (req.Method = "CONNECT" \/ req.IsAbs)
     /\ ~ValidateProxyAuth(cfg.ProxyToken, req.ProxyAuth))
    => /\ resp.status = 407
       /\ resp.proxyAuthenticate
       /\ route # "proxy"
       /\ \A e \in DialEvents : ~Happened(e)

\* C8: in handleConnect the outbound connection is established before the
\* inbound socket is hijacked, the hijack precedes the write of "200
\* Connection Established", and that write precedes the start of the two copy
\* tasks; when the outbound dial fails the client gets 502 and the socket is
\* never hijacked, no 200 line is written and no relay starts.
C8_ConnectOrder ==
    /\ Happened("hijack") => Before("dial-ok", "hijack")
    /\ Happened("200 Connection Established")
          => Before("hijack", "200 Connection Established")
    /\ Happened("relay") => Before("200 Connection Established", "relay")
    /\ clientConn # "none" => Happened("hijack")
    /\ (copier.c2t # "off" \/ copier.t2c # "off") => Happened("relay")
    /\ Happened("dial-failed")
          => /\ pc = "done"
             /\ resp.status = 502
             /\ ~Happened("dial-ok")
             /\ ~Happened("hijack")
             /\ ~Happened("200 Connection Established")
             /\ ~Happened("relay")
             /\ clientConn = "none"
             /\ targetConn = "none"
             /\ copier = [c2t |-> "off", t2c |-> "off"]

\* C8 witness: a tunnel whose relay started after dial, hijack and the 200 line.
C8_Witness ==
    /\ Len(events) >= 5
    /\ SubSeq(events, 2, 5) = <<"dial-ok", "hijack", "200 Connection Established", "relay">>
    /\ copier = [c2t |-> "run", t2c |-> "run"]

\* C9: once the relay has started handleConnect can return as soon as one
\* copy direction has ended, whichever it is, without waiting for the other;
\* and it does not return before one has ended.
C9_ReturnsOnFirstCopyEnd ==
    /\ (pc = "wait" /\ (copier.c2t = "ended" \/ copier.t2c = "ended"))
          => ENABLED ConnectReturn
    /\ (pc = "wait" /\ copier.c2t = "run" /\ copier.t2c = "run")
          => ~ENABLED ConnectReturn
    /\ Happened("return") => (copier.c2t = "ended" \/ copier.t2c = "ended")

\* C9 witness: handleConnect returned after target->client ended while
\* client->target was still copying.
C9_Witness ==
    /\ Happened("return")
    /\ pc = "done"
    /\ copier = [c2t |-> "run", t2c |-> "ended"]

(***************************************************************************)
(* Properties of copyHeaders.                                              *)
(***************************************************************************)
\* The keys of the source whose values dst receives under the canonical key K.
Contributors(K) == {k \in Present(hdrSrc0) : k \notin hopByHop /\ CanonicalKey(k) = K}

\* s is t followed by the value lists of the keys in P, each list whole and in
\* its order, the lists in some order.
RECURSIVE ExtendedBy(_, _, _)
ExtendedBy(s, t, P) ==
    IF P = {} THEN s = t
    ELSE \E k \in P : ExtendedBy(s, t \o hdrSrc0[k], P \ {k})

\* C10: when copyHeaders has returned, for every header name the destination
\* holds what it held before followed by every value, in order, of the source
\* headers whose name is not in the hop-by-hop set; a source header whose name
\* is in that set has added nothing; the source map is as it was.
C10_CopyHeaders ==
    hdrTodo = {}
    => /\ hdrSrc = hdrSrc0
       /\ \A K \in DOMAIN hdrDst : ExtendedBy(hdrDst[K], hdrDst0[K], Contributors(K))
       /\ \A K \in DOMAIN hdrDst :
             (\A k \in Present(hdrSrc0) : CanonicalKey(k) = K => k \in hopByHop)
                => hdrDst[K] = hdrDst0[K]

\* C10 witness: a source with a multi-valued header and a hop-by-hop header was
\* copied; the destination holds both values of the first and nothing of the second.
C10_Witness ==
    /\ hdrTodo = {}
    /\ hdrSrc0["Accept"] = <<"v1", "v2">>
    /\ hdrSrc0["Proxy-Authorization"] # <<>>
    /\ hdrDst["Accept"] = <<"v1", "v2">>
    /\ hdrDst["Proxy-Authorization"] = <<>>


(***************************************************************************)
(* Properties of handleHTTP.                                               *)
(***************************************************************************)
\* C11: the request handleHTTP hands to the transport carries no header of the
\* hop-by-hop set (so never the client's Proxy-Authorization) and carries the
\* other inbound headers; the response written to the client has the origin's
\* status and, of the origin's headers, exactly those outside the hop-by-hop set.
C11_HopByHopStripped ==
    /\ fwd.sent # NotSent
          => /\ \A k \in hopByHop : fwd.sent[k] = <<>>
             /\ \A k \in CanonicalKeys \ (hopByHop \cup {"User-Agent"}) :
                   fwd.sent[k] = fwd.inHdr[k]
    /\ (fwd.pc = "done" /\ fwd.originStatus # 0)
          => /\ fwd.wStatus = fwd.originStatus
             /\ \A k \in CanonicalKeys :
                   fwd.wHdr[k] = IF k \in hopByHop THEN <<>> ELSE fwd.originHdr[k]

\* C11 witness: a request with credentials in Proxy-Authorization and an Accept
\* header was forwarded, and a response with a Connection and an X-A header
\* was written to the client.
C11_Witness ==
    /\ fwd.pc = "done"
    /\ fwd.inHdr["Proxy-Authorization"] # <<>>
    /\ fwd.inHdr["Accept"] = <<"v1", "v2">>
    /\ fwd.sent # NotSent
    /\ fwd.sent["Accept"] = <<"v1", "v2">>
    /\ fwd.originStatus = 404
    /\ fwd.originHdr["Upgrade"] # <<>>
    /\ fwd.wHdr["X-A"] = fwd.originHdr["X-A"]
    /\ fwd.wHdr["X-A"] # <<>>


(***************************************************************************)
(* Properties of proxy.Handler.                                            *)
(***************************************************************************)
OutboundEvents == {"new-client", "forward", "dial-direct", "dial-upstream"}

\* C12: a non-CONNECT request with a relative URL that has reached
\* proxy.Handler is answered 400 and is never forwarded: no client is
\* constructed and no outbound request or dial is made for it.
C12_RelativeURLRejected ==
    (route = "proxy" /\ req.Method # "CONNECT" /\ ~req.IsAbs)
    => /\ \A e \in OutboundEvents : ~Happened(e)
       /\ pc \in {"http", "done"}
       /\ (pc = "done" => resp.status = 400)

\* C12 witness: proxy.Handler answered a GET with a relative URL.
C12_Witness ==
    /\ route = "proxy"
    /\ req.Method = "GET"
    /\ ~req.IsAbs
    /\ pc = "done"
    /\ resp.status = 400
    /\ events = <<>>

\* C13: every failed proxy request is answered with one status, fixed by the
\* kind of failure: 502 when the CONNECT dial (direct or through the upstream)
\* or the forwarded request fails, 407 (with the challenge) when the
\* authentication gate rejects, and only then, 400 for a relative URL at
\* proxy.Handler, 500 when the outbound request cannot be constructed; a
\* request that ends without a hijacked socket has exactly one status written,
\* and a failure is never answered with a success status.
C13_FailureStatus ==
    /\ Happened("dial-failed") => (pc = "done" /\ resp.status = 502)
    /\ Happened("forward-failed") => (pc = "done" /\ resp.status = 502)
    /\ Happened("new-request-failed") => (pc = "done" /\ resp.status = 500)
    /\ (pc = "done" /\ route = "none" /\ ~proxyHandler.nil
            /\ (req.Method = "CONNECT" \/ req.IsAbs))
          => (AuthRejects /\ resp = [status |-> 407, proxyAuthenticate |-> TRUE])
    /\ resp.status = 407 => (AuthRejects /\ resp.proxyAuthenticate /\ route = "none")
    /\ (pc = "done" /\ route = "proxy" /\ req.Method # "CONNECT" /\ ~req.IsAbs)
          => resp.status = 400
    /\ (pc = "done" /\ route # "api") => (resp.status = 0 <=> Happened("hijack"))
    /\ pc # "done" => resp.status = 0

\* C13 witness: a forwarded request failed in the transport and was answered 502.
C13_Witness ==
    /\ pc = "done"
    /\ Happened("forward-failed")
    /\ resp.status = 502
    /\ route = "proxy"

\* An outbound connection made straight to the target: the direct dial of
\* handleConnect, and the transport's own dial for a forwarded request.
DirectEvents == {"dial-direct", "forward"}

\* C15: with an upstream proxy configured no outbound connection goes directly
\* to the target, for a CONNECT tunnel and for a plain-HTTP forward alike; with
\* none configured no connection goes to an upstream.
C15_AllThroughUpstream ==
    /\ proxyHandler.upstreamURL => \A e \in DirectEvents : ~Happened(e)
    /\ ~proxyHandler.upstreamURL => ~Happened("dial-upstream")


(***************************************************************************)
(* Properties of dialViaUpstreamProxy.                                     *)
(***************************************************************************)
\* C14: dialViaUpstreamProxy returns a connection only when the upstream
\* answered the CONNECT with status 200, and then the connection is open; in
\* every other case (dial error, write error, read error or malformed
\* response, any other status) it returns an error and leaves no open
\* connection; a call makes one TCP dial, to the upstream, and writes at most
\* one CONNECT, for the target.
C14_UpstreamConnect ==
    /\ up.result = "conn" => (up.status = 200 /\ up.conn = "open" /\ up.pc = "returned")
    /\ up.pc = "returned"
          => /\ up.result \in {"conn", "err"}
             /\ up.result = "err" => up.conn # "open"
             /\ up.status # 200 => up.result = "err"
             /\ up.status = 200 => up.result = "conn"
             /\ up.dials = 1
    /\ up.dials <= 1
    /\ Len(up.written) <= 1
    /\ up.conn # "none" => (up.dials = 1 /\ up.dialed = ProxyAddr(up.host))
    /\ \A i \in 1..Len(up.written) : up.written[i].target = up.targetAddr

\* C14 witness: the upstream answered 407; the call returned an error with the
\* connection closed, after one dial and one CONNECT.
C14_Witness ==
    /\ up.pc = "returned"
    /\ up.status = 407
    /\ up.result = "err"
    /\ up.conn = "closed"
    /\ up.dials = 1
    /\ Len(up.written) = 1


(***************************************************************************)
(* Properties of fingerprint selection.                                    *)
(***************************************************************************)
\* The catalog entries whose name is the given one in some letter case.
NamedBy(name) ==
    {i \in 1..Len(GetFingerprints) : ToLower(GetFingerprints[i].Name) = ToLower(name)}

\* C16: findFingerprint and NewHandler both return, for a catalog name in any
\* letter case, the catalog profile of that name, and for the empty name and
\* for every other name the default profile, the first catalog entry (Chrome).
C16_SelectByName ==
    fp.pc = "returned"
    => /\ \A i \in NamedBy(fp.name) :
             fp.scraper = GetFingerprints[i] /\ fp.handler = GetFingerprints[i]
       /\ NamedBy(fp.name) = {}
             => (fp.scraper = GetFingerprints[1] /\ fp.handler = GetFingerprints[1])
       /\ GetFingerprints[1].ID = "HelloChrome_Auto"


(***************************************************************************)
(* Properties of ScraperService.                                           *)
(***************************************************************************)
SpawnNext == \E i \in 1..MaxBatch : Spawn(i)

Returned(i) == sc.fetch[i].pc = "returned"

\* C17: FetchBatch starts all N fetches without waiting for any of them, and
\* returns only after all have returned; Results has length N, Results[i] is
\* what the FetchURL call for Requests[i] returned and carries its URL, also
\* for calls cancelled at the gate; Total = N and Success + Failed = N.
C17_BatchResults ==
    /\ sc.pc = "spawn" => ENABLED SpawnNext
    /\ sc.pc # "spawn" => \A i \in Fetches : sc.fetch[i].pc # "unspawned"
    /\ \A i \in Fetches : Returned(i) => sc.results[i].URL = RequestURL(i)
    /\ sc.pc = "returned"
          => /\ \A i \in Fetches : Returned(i)
             /\ Len(sc.resp.Results) = sc.n
             /\ \A i \in Fetches :
                   /\ sc.resp.Results[i] = sc.results[i]
                   /\ sc.resp.Results[i].URL = RequestURL(i)
             /\ sc.resp.Total = sc.n
             /\ sc.resp.Success + sc.resp.Failed = sc.n

\* C17 witness: a batch returned whose first fetch was cancelled at the gate
\* and whose second one succeeded.
C17_Witness ==
    /\ sc.pc = "returned"
    /\ sc.n >= 2
    /\ sc.resp.Results[1] = [URL |-> RequestURL(1), StatusCode |-> 0, Error |-> ErrCancelled]
    /\ sc.resp.Results[2] = [URL |-> RequestURL(2), StatusCode |-> 200, Error |-> ""]
    /\ sc.resp.Success = 1

\* C18: in a BatchResponse Success is the number of results with an empty
\* Error and 200 <= StatusCode < 400, Failed is the number of all the others
\* (a non-empty Error, or a status below 200 or at or above 400), and the
\* results are returned as they were.
C18_SuccessCount ==
    tl.pc = "returned"
    => /\ tl.resp.Success =
            Cardinality({i \in 1..Len(tl.results) :
                            /\ tl.results[i].Error = ""
                            /\ 200 <= tl.results[i].StatusCode
                            /\ tl.results[i].StatusCode < 400})
       /\ tl.resp.Failed =
            Cardinality({i \in 1..Len(tl.results) :
                            \/ tl.results[i].Error # ""
                            \/ tl.results[i].StatusCode < 200
                            \/ tl.results[i].StatusCode >= 400})
       /\ tl.resp.Results = tl.results
       /\ tl.resp.Total = Len(tl.results)

\* C18 witness: results with status 399 and no error, status 400 and no error,
\* status 200 and an error: one success, two failed.
C18_Witness ==
    /\ tl.pc = "returned"
    /\ tl.results = << [URL |-> 1, StatusCode |-> 399, Error |-> ""],
                       [URL |-> 1, StatusCode |-> 400, Error |-> ""],
                       [URL |-> 1, StatusCode |-> 200, Error |-> "request failed"] >>
    /\ tl.resp.Success = 1
    /\ tl.resp.Failed = 2

\* The FetchURL calls past the admission gate.
InFlight == {i \in Fetches : sc.fetch[i].pc = "work"}

\* C19: at most W FetchURL calls are past the admission gate at once; a call
\* at the gate while W are in flight can take no step until a slot is released
\* or its context is cancelled; when the context is cancelled it can return
\* the cancellation error, and a call that did so took no slot and performed
\* no request; a call at the gate with a slot free can enter.
C19_AdmissionGate ==
    /\ Cardinality(InFlight) <= sc.W
    /\ sc.pool = Cardinality(InFlight)
    /\ \A i \in Fetches :
          sc.fetch[i].pc = "gate"
          => /\ sc.pool = sc.W => ~ENABLED Acquire(i)
             /\ sc.pool < sc.W => ENABLED Acquire(i)
             /\ ~sc.ctxDone => ~ENABLED CancelledWaiting(i)
             /\ sc.ctxDone => ENABLED CancelledWaiting(i)
    /\ \A i \in Fetches :
          (Returned(i) /\ sc.results[i].Error = ErrCancelled)
          => (sc.fetch[i].acquired = 0 /\ sc.fetch[i].performed = 0)

\* C19 witness: W calls are in flight, another waits at the gate, and a third
\* returned the cancellation error.
C19_Witness ==
    /\ Cardinality(InFlight) = sc.W
    /\ \E i \in Fetches : sc.fetch[i].pc = "gate"
    /\ \E j \in Fetches : Returned(j) /\ sc.results[j].Error = ErrCancelled

\* C20: a FetchURL call takes at most one slot; a call that took one has given
\* back exactly one when it has returned, whatever it returned; a call
\* cancelled at the gate took and gave back none; when all calls have
\* returned no slot is occupied.
C20_SlotReleased ==
    /\ \A i \in Fetches :
          /\ sc.fetch[i].acquired <= 1
          /\ sc.fetch[i].released <= sc.fetch[i].acquired
          /\ sc.fetch[i].pc = "work"
                => (sc.fetch[i].acquired = 1 /\ sc.fetch[i].released = 0)
          /\ Returned(i)
                => /\ sc.fetch[i].released = sc.fetch[i].acquired
                   /\ sc.results[i].Error = ErrCancelled => sc.fetch[i].acquired = 0
                   /\ sc.results[i].Error # ErrCancelled => sc.fetch[i].acquired = 1
    /\ (\A i \in Fetches : Returned(i)) => sc.pool = 0

\* C20 witness: three calls returned, one with a request build error, one with
\* a transport error and one with a body read error, and the pool is empty.
C20_Witness ==
    /\ sc.n = 3
    /\ \A i \in Fetches : Returned(i)
    /\ sc.results[1].Error = "failed to create request"
    /\ sc.results[2].Error = "request failed"
    /\ sc.results[3].Error = "failed to read body"
    /\ sc.pool = 0

(***************************************************************************)
(* Further properties of RoundTrip and of the session pool.                *)
(***************************************************************************)
\* The call's dial step failed: it dialed and returned with no protocol negotiated.
DialStepFailed(c) ==
    /\ call[c].pc = "done"
    /\ call[c].scheme = "https"
    /\ call[c].dials > 0
    /\ call[c].alpn = "none"

\* C21: when the dial step of a RoundTrip fails (TCP dial error, handshake
\* error or handshake deadline), the call returns an error after one dial and
\* at most one handshake, the socket it opened (if the dial got that far) is
\* closed, no request was issued on it, and the call's dial step wrote nothing
\* to the pool: its connection is in no pool entry and the only pool write the
\* call can have made is the delete that precedes the dial.
C21_DialFailure ==
    \A c \in Calls :
        DialStepFailed(c)
        => /\ call[c].result = "err"
           /\ call[c].dials = 1
           /\ call[c].handshakes \in {0, 1}
           /\ conn[c] = (IF call[c].handshakes = 1 THEN "closed" ELSE "none")
           /\ ~connUsed[c]
           /\ \A k \in Addrs : h2ConnPool[k] # c
           /\ call[c].writes = (IF call[c].pooledFailed THEN 1 ELSE 0)

\* C21 witness: a call whose TLS handshake failed has returned while the pool
\* still holds the session another call stored for the same destination.
C21_Witness ==
    \E c \in Calls :
        /\ DialStepFailed(c)
        /\ call[c].handshakes = 1
        /\ conn[c] = "closed"
        /\ h2ConnPool[call[c].addr] \notin {NoConn, c}

\* The body of one response read by FetchURL.
InitBd == BdInit /\ FirstIdle /\ FwdIdle /\ UpIdle /\ FpIdle /\ ScIdle /\ TlIdle
          /\ LkIdle /\ CxIdle /\ HpIdle /\ LastIdle

SpecBd == InitBd /\ [][ReadBody]_vars

\* C27: every pool entry is a session whose handshake negotiated "h2", stored
\* under its own destination. A plain http request makes no dial, no handshake
\* and no pool write. An https call whose handshake negotiated "http/1.1" or ""
\* has made exactly one dial and one handshake, issued the request on the
\* connection it opened, stored nothing (its connection is in no pool entry;
\* its only possible pool write is the delete that precedes the dial), so no
\* other call is ever served on that connection: a call is served either on a
\* pooled "h2" session or on the connection of its own handshake.
C27_OnlyH2Pooled ==
    /\ \A k \in Addrs :
          h2ConnPool[k] # NoConn
          => (call[h2ConnPool[k]].alpn = "h2" /\ call[h2ConnPool[k]].addr = k)
    /\ \A c \in Calls :
          /\ (call[c].pc = "done" /\ call[c].scheme = "http")
                => /\ call[c].dials = 0 /\ call[c].handshakes = 0
                   /\ call[c].writes = 0
                   /\ conn[c] = "none" /\ ~connUsed[c]
          /\ call[c].alpn \in {"http/1.1", ""}
                => /\ call[c].pc = "done"
                   /\ call[c].dials = 1 /\ call[c].handshakes = 1
                   /\ connUsed[c]
                   /\ call[c].issued = (IF call[c].pooledFailed THEN 2 ELSE 1)
                   /\ call[c].servedBy = (IF call[c].result = "ok" THEN c ELSE NoConn)
                   /\ \A k \in Addrs : h2ConnPool[k] # c
                   /\ call[c].writes = (IF call[c].pooledFailed THEN 1 ELSE 0)
          /\ (call[c].pc = "done" /\ call[c].result = "ok" /\ call[c].scheme = "https")
                => \/ call[c].servedBy = c /\ call[c].handshakes = 1
                   \/ /\ call[c].servedBy \notin {NoConn, c}
                      /\ call[call[c].servedBy].alpn = "h2"

\* C27 witness: a call was served over HTTP/1.1 on the connection it opened,
\* the pool has no entry for the destination, and a later call to the same
\* destination made a handshake of its own.
C27_Witness ==
    \E c, d \in Calls :
        /\ c < d
        /\ call[c].pc = "done" /\ call[c].alpn = "http/1.1" /\ call[c].result = "ok"
        /\ call[d].pc = "done" /\ call[d].addr = call[c].addr
        /\ call[d].handshakes = 1 /\ call[d].alpn = ""
        /\ h2ConnPool[call[c].addr] = NoConn

\* The call's own request failed on the HTTP/2 session the call created.
FailedOnOwnSession(c) ==
    /\ call[c].pc = "done"
    /\ call[c].result = "err"
    /\ call[c].alpn = "h2"
    /\ conn[c] = "open"

\* C30: when RoundTrip has returned an error because the request failed on an
\* HTTP/2 session, that session is not in the pool.
C30_BrokenSessionEvicted ==
    \A c \in Calls :
        FailedOnOwnSession(c) => \A k \in Addrs : h2ConnPool[k] # c

\* C31: the delete made after a request failed on a pooled session removes
\* only that session: when the entry of the key is by then a different session
\* (stored by another call since the failing call read the pool), the entry
\* is still there after the delete.
C31_EvictOnlyFailed ==
    [][\A c \in Calls :
          (call[c].pc = "evict" /\ call'[c].pc = "dial"
              /\ h2ConnPool[call[c].addr] \notin {NoConn, call[c].got})
          => h2ConnPool'[call[c].addr] = h2ConnPool[call[c].addr]]_vars

(***************************************************************************)
(* Properties of the fetch result.                                         *)
(***************************************************************************)
\* C22: when the body of the response is longer than the cap the result
\* carries an error; a body of at most the cap, read without a failure, is
\* returned whole and with no error.
C22_BodyTooLarge ==
    bd.pc = "returned"
    => /\ ReaderLen(bd.resp) > BodyLimit => bd.res.Error # ""
       /\ (ReaderLen(bd.resp) <= BodyLimit /\ ~bd.resp.readFails)
             => (bd.res.Error = "" /\ bd.res.Body = ReaderLen(bd.resp))

\* The blocking steps of one inbound request. What the program itself does is
\* scheduled: a step that watches the context returns, the handshake deadline
\* arrives, the handler returns after the first copy ended. What the peer
\* does, and when, is not.
InitCx == CxInit /\ FirstIdle /\ FwdIdle /\ UpIdle /\ FpIdle /\ ScIdle /\ TlIdle
          /\ LkIdle /\ BdIdle /\ HpIdle /\ LastIdle

SpecCx ==
    /\ InitCx
    /\ [][CxNext]_vars
    /\ WF_vars(CxHonour)
    /\ WF_vars(CxHandshakeDeadline)
    /\ WF_vars(CxTunnelReturn)

(***************************************************************************)
(* Properties of cancellation.                                             *)
(***************************************************************************)
\* C23: once the request's context is done (cancelled or past its deadline),
\* whatever blocking step the request is in terminates: the request does not
\* stay in a blocking step for ever.
C23_CancellationUnblocks ==
    (cx.ctx # "live") ~> (cx.pc = "done")

(***************************************************************************)
(* Properties of the combined handler's dispatch.                          *)
(***************************************************************************)
\* The request is one the proxy is to handle: CONNECT, or an absolute URL.
IsProxyRequest == req.Method = "CONNECT" \/ req.IsAbs

\* C24: once combinedHandler.ServeHTTP has dispatched the request, a CONNECT
\* or absolute-URL request went to the proxy handler, or was answered 407 by
\* the authentication gate, or (CONNECT with the proxy disabled) was answered
\* 503, and never went to the API router; every other request went to the API
\* router, whatever its Proxy-Authorization header, and was answered nothing
\* by the combined handler itself.
C24_Dispatch ==
    pc # "recv"
    => IF IsProxyRequest
       THEN /\ route # "api"
            /\ \/ route = "proxy" /\ ~proxyHandler.nil /\ ~AuthRejects
               \/ route = "none" /\ resp.status = 407 /\ AuthRejects
               \/ /\ route = "none" /\ resp.status = 503
                  /\ req.Method = "CONNECT" /\ proxyHandler.nil
       ELSE route = "api" /\ resp = NoResp

\* Concurrent RoundTrip calls on one round tripper, statement by statement.
InitLk == LkInit /\ FirstIdle /\ FwdIdle /\ UpIdle /\ FpIdle /\ ScIdle /\ TlIdle
          /\ BdIdle /\ CxIdle /\ HpIdle /\ LastIdle

SpecLk == InitLk /\ [][LkNext]_vars

(***************************************************************************)
(* Properties of concurrent RoundTrip calls.                               *)
(***************************************************************************)
\* The call stored its session into the pool.
Inserted(c) == \E i \in 1..Len(lk.log) : lk.log[i] = <<"insert", lk.call[c].addr, c>>

\* The positions in the log of the writes to key k.
WritesTo(k) == {i \in 1..Len(lk.log) : lk.log[i][2] = k}

\* The last write to key k.
LastWrite(k) == lk.log[CHOOSE i \in WritesTo(k) : \A j \in WritesTo(k) : j <= i]

\* C25: calls that find no usable pooled session each make their own
\* handshake and store their own session; after the stores the pool entry of a
\* key is the session written last (none after a delete); a call that stored
\* its session issues its request on that session; a session that is no
\* longer the entry of its key is in no pool entry and its connection has not
\* been closed.
C25_LastWriterWins ==
    /\ \A k \in LockAddrs :
          IF WritesTo(k) = {} THEN lk.pool[k] = NoConn
          ELSE lk.pool[k] = (IF LastWrite(k)[1] = "insert" THEN LastWrite(k)[3] ELSE NoConn)
    /\ \A c \in LockCalls :
          Inserted(c)
          => /\ lk.call[c].conn = "tls"
             /\ lk.call[c].alpn = "h2"
             /\ LkAt(c, "done") => lk.call[c].ownUsed
             /\ lk.pool[lk.call[c].addr] # c => \A k \in LockAddrs : lk.pool[k] # c

\* C25 witness: two calls to the same destination both found the pool empty,
\* both stored a session and both issued their request on their own session;
\* the entry is the one stored last and the other connection is still open.
C25_Witness ==
    \E c, d \in LockCalls :
        /\ c # d
        /\ lk.call[c].addr = lk.call[d].addr
        /\ lk.call[c].got = NoConn /\ lk.call[d].got = NoConn
        /\ Inserted(c) /\ Inserted(d)
        /\ LkAt(c, "done") /\ LkAt(d, "done")
        /\ lk.call[c].ownUsed /\ lk.call[d].ownUsed
        /\ lk.log = << <<"insert", lk.call[c].addr, c>>, <<"insert", lk.call[c].addr, d>> >>
        /\ lk.pool[lk.call[c].addr] = d
        /\ lk.call[c].conn = "tls"

\* The statements at which a call accesses the pool map.
MapAccess == {"read", "delete", "insert"}

\* C26: the pool is mutated only by a call that holds the write lock and read
\* only by a call that holds the read lock; a writer never overlaps a reader
\* or another writer; and a call holds the mutex only at a map access, never
\* at a dial, a handshake or a request, so the mutex is free whenever no call
\* is at a map access.
C26_LockDiscipline ==
    [][/\ lk'.pool # lk.pool
            => /\ lk.writer # NoCall
               /\ lk.readers = {}
               /\ lk'.call[lk.writer].pc # lk.call[lk.writer].pc
       /\ \A c \in LockCalls :
            lk'.call[c].pc = "check" /\ lk.call[c].pc # "check" => c \in lk.readers
       /\ lk'.writer # NoCall => lk'.readers = {}
       /\ \A c \in LockCalls :
            (c \in lk'.readers \/ lk'.writer = c) => lk'.call[c].pc \in MapAccess]_vars

\* C26 witness: one call is in its TLS handshake while another call holds the
\* write lock to store the session of another destination.
C26_Witness ==
    \E c, d \in LockCalls :
        /\ LkAt(c, "handshake")
        /\ LkAt(d, "insert")
        /\ lk.writer = d
        /\ lk.call[c].addr # lk.call[d].addr

\* C28: in one RoundTrip call the switch on the negotiated protocol is
\* evaluated at most once, after the handshake of the call's connection has
\* completed; the path taken is the HTTP/2 one exactly for "h2" and the
\* HTTP/1.1 one exactly for "http/1.1" and ""; and the request is issued on the
\* call's own connection only after the switch, on the path it chose: never on
\* a connection whose handshake has not completed.
C28_PathChosenOnce ==
    \A c \in LockCalls :
        LET r == lk.call[c] IN
        /\ r.switches <= 1
        /\ (r.path # "none") <=> (r.switches = 1)
        /\ r.switches = 1 => (r.alpn # "none" /\ r.conn \in {"tls", "closed"})
        /\ (r.path = "h2") <=> (r.switches = 1 /\ r.alpn = "h2")
        /\ (r.path = "h1") <=> (r.switches = 1 /\ r.alpn \in {"http/1.1", ""})
        /\ r.ownUsed => r.path \in {"h2", "h1"}
        /\ r.pc \in {"new-client-conn", "lock-insert", "insert", "h2-io"} => r.path = "h2"
        /\ r.pc = "h1-io" => r.path = "h1"
        /\ r.conn \in {"none", "tcp"} => (~r.ownUsed /\ r.path = "none" /\ r.alpn = "none")

\* C28 witness: one call has issued its request over HTTP/1.1 on the connection
\* it opened and another over the HTTP/2 session it created.
C28_Witness ==
    \E c, d \in LockCalls :
        /\ LkAt(c, "done") /\ lk.call[c].path = "h1" /\ lk.call[c].ownUsed
        /\ lk.call[c].alpn = ""
        /\ LkAt(d, "done") /\ lk.call[d].path = "h2" /\ lk.call[d].ownUsed

\* One host resolved to a dial address by RoundTrip or by handleConnect.
InitHp == HpInit /\ FirstIdle /\ FwdIdle /\ UpIdle /\ FpIdle /\ ScIdle /\ TlIdle
          /\ LkIdle /\ BdIdle /\ CxIdle /\ LastIdle

SpecHp == InitHp /\ [][ResolveAddr]_vars

(***************************************************************************)
(* Properties of the dial address.                                         *)
(***************************************************************************)
\* The host carries a port: for a bracketed IPv6 literal a colon follows the
\* closing bracket; for any other host it holds a colon.
CarriesPort(host) ==
    IF Len(host) > 0 /\ host[1] = "["
    THEN \E i \in 1..(Len(host) - 1) : host[i] = "]" /\ host[i + 1] = ":"
    ELSE Contains(host, ":")

\* C29: the pool key / dial address of RoundTrip and the target address of
\* handleConnect are the host itself when the host carries a port and the host
\* followed by ":443" when it carries none, for DNS names, IPv4 literals and
\* bracketed IPv6 literals alike.
C29_DefaultPort ==
    hp.pc = "returned"
    => hp.addr = (IF CarriesPort(hp.host) THEN hp.host
                  ELSE hp.host \o <<":", "4", "4", "3">>)

(***************************************************************************)
(* UTLSClient.Do and the caller's read of the response body.               *)
(*                                                                         *)
(* Do adds a 30 second timeout context to a request whose context has no   *)
(* deadline, and defers the cancel of that context, so the cancel runs as  *)
(* Do returns. The callers read the body after Do has returned. A read on  *)
(* a response whose request context is cancelled returns what had already  *)
(* arrived or fails with the context's error: which of the two depends on  *)
(* how far the transport has got, so the model leaves both open.           *)
(***************************************************************************)
\* The longest response body, in chunks.
MaxChunks == 3

\* The callers of Do: the proxy's handleHTTP, the scraper's FetchURL under
\* fetchHandler and under batchHandler, and the client's own Get and Post.
DoCallers == {"handleHTTP", "fetchHandler", "batchHandler", "Get"}

\* Whether the context of the request the caller hands to Do has a deadline:
\* fetchHandler and batchHandler wrap theirs in context.WithTimeout, while
\* handleHTTP passes the server's request context and Get and Post the
\* background context of http.NewRequest.
HasDeadline(caller) == caller \in {"fetchHandler", "batchHandler"}

DcInit ==
    dc \in [pc : {"call"}, caller : DoCallers, alpn : {"h2", "http/1.1"},
            chunks : 0..MaxChunks, attached : {FALSE}, ctx : {"none"},
            read : {0}, err : {"none"}]

\* Do: the context is attached when the request has no deadline, the round
\* trip is made, and the deferred cancel runs before the caller gets the
\* response.
Do ==
    /\ UNCHANGED notDc
    /\ dc.pc = "call"
    /\ \E ok \in BOOLEAN :
          dc' = [dc EXCEPT !.attached = ~HasDeadline(dc.caller),
                           !.ctx = IF HasDeadline(dc.caller) THEN "none" ELSE "cancelled",
                           !.pc = IF ok THEN "reading" ELSE "failed",
                           !.err = IF ok THEN "none" ELSE "request failed"]

\* The caller reads the next chunk of the body.
DcBodyRead ==
    /\ UNCHANGED notDc
    /\ dc.pc = "reading"
    /\ dc.read < dc.chunks
    /\ dc' = [dc EXCEPT !.read = @ + 1]

\* A read of the body of a request whose context is cancelled fails with the
\* context's error.
DcBodyReadCancelled ==
    /\ UNCHANGED notDc
    /\ dc.pc = "reading"
    /\ dc.read < dc.chunks
    /\ dc.ctx = "cancelled"
    /\ dc' = [dc EXCEPT !.pc = "closed", !.err = "context canceled"]

\* The caller has read to the end of the body and closes it.
DcBodyClose ==
    /\ UNCHANGED notDc
    /\ dc.pc = "reading"
    /\ dc.read = dc.chunks
    /\ dc' = [dc EXCEPT !.pc = "closed"]

DcNext == Do \/ DcBodyRead \/ DcBodyReadCancelled \/ DcBodyClose

InitDc == DcInit /\ FirstIdle /\ FwdIdle /\ UpIdle /\ FpIdle /\ ScIdle /\ TlIdle
          /\ LateIdle /\ HfIdle /\ GcIdle

SpecDc == InitDc /\ [][DcNext]_vars

(***************************************************************************)
(* Properties of the attached timeout context.                             *)
(***************************************************************************)
\* C32: for a request without a deadline, the timeout context Do attached is
\* not cancelled while the caller is still reading the body of the response
\* Do returned.
C32_ContextLiveWhileReading ==
    (dc.pc = "reading" /\ dc.attached) => dc.ctx = "live"

(***************************************************************************)
(* The forwards of one proxy Handler.                                      *)
(*                                                                         *)
(* The Handler keeps its configuration, its fingerprint and the upstream   *)
(* URL, and no client: handleHTTP calls transport.NewUTLSClient for every  *)
(* request, and NewUTLSClient builds a round tripper with a pool of its    *)
(* own. `hf.pools[k]` is the pool of the round tripper made for the k-th   *)
(* forward; `hf.handshakes` and `hf.sessions` count, per destination, the  *)
(* TLS handshakes made and the HTTP/2 sessions created since the Handler   *)
(* was built.                                                              *)
(***************************************************************************)
\* The number of requests the Handler forwards.
MaxForwards == 3

HfDests == {<<"a", ":", "4", "4", "3">>, <<"b", ":", "4", "4", "3">>}

\* newUTLSRoundTripper: the pool of a new round tripper is empty.
NewPool == [d \in HfDests |-> NoConn]

HfInit ==
    hf = [pc |-> "serving", pools |-> <<>>,
          handshakes |-> [d \in HfDests |-> 0],
          sessions |-> [d \in HfDests |-> 0],
          log |-> <<>>]

\* handleHTTP for an absolute URL: a new client with a new round tripper, then
\* RoundTrip on it. An https request looks the destination up in that round
\* tripper's pool, and on a miss dials, shakes hands and, when the handshake
\* negotiated "h2", stores the session in that pool.
HandleForward(dest, scheme, alpn) ==
    /\ UNCHANGED notHf
    /\ hf.pc = "serving"
    /\ Len(hf.log) < MaxForwards
    /\ LET pool == NewPool
           found == scheme = "https" /\ pool[dest] # NoConn
           dials == scheme = "https" /\ ~found
           pooled == dials /\ alpn = "h2"
           session == hf.sessions[dest] + 1
       IN  hf' = [hf EXCEPT
                    !.pools = Append(@, IF pooled
                                        THEN [pool EXCEPT ![dest] = session]
                                        ELSE pool),
                    !.handshakes[dest] = IF dials THEN @ + 1 ELSE @,
                    !.sessions[dest] = IF pooled THEN session ELSE @,
                    !.log = Append(@, [dest |-> dest, scheme |-> scheme,
                                       alpn |-> IF dials THEN alpn ELSE "none",
                                       reused |-> found,
                                       handshake |-> dials])]

HfNext ==
    \E dest \in HfDests, scheme \in {"http", "https"}, alpn \in {"h2", "http/1.1"} :
        HandleForward(dest, scheme, alpn)

InitHf == HfInit /\ FirstIdle /\ FwdIdle /\ UpIdle /\ FpIdle /\ ScIdle /\ TlIdle
          /\ LateIdle /\ DcIdle /\ GcIdle

SpecHf == InitHf /\ [][HfNext]_vars

(***************************************************************************)
(* Properties of the Handler's forwards.                                   *)
(***************************************************************************)
\* C33: the forwards of one Handler share one pool. After an https forward
\* has negotiated h2 with a destination, a later https forward of the same
\* Handler to that destination reuses the pooled session and makes no
\* handshake, and no destination ever has more than one session.
C33_ForwardsShareThePool ==
    /\ \A i, j \in 1..Len(hf.log) :
          (i < j /\ hf.log[i].dest = hf.log[j].dest
               /\ hf.log[i].alpn = "h2" /\ hf.log[j].scheme = "https")
          => (hf.log[j].reused /\ ~hf.log[j].handshake)
    /\ \A d \in HfDests : hf.sessions[d] <= 1

(***************************************************************************)
(* ScraperService.getClient under concurrent callers.                      *)
(*                                                                         *)
(* FetchURL runs on one goroutine per request, so getClient calls overlap. *)
(* A call looks the name up under the read lock, and on a miss releases    *)
(* the lock, builds a client and stores it under the write lock without    *)
(* looking again. Each locked section is one step here: readers do not     *)
(* exclude each other and the writer excludes everybody. Clients are       *)
(* numbered in the order NewUTLSClient makes them.                         *)
(***************************************************************************)
\* The number of getClient calls.
NGetCalls == 3

GetCalls == 1..NGetCalls

\* The absent entry of clientCache.
NoClient == 0

\* The names the calls give, as the cache keys they are: the empty name and
\* "Chrome".
CacheKeys == {<<>>, <<67, 104, 114, 111, 109, 101>>}

GcInit ==
    gc = [cache |-> [n \in CacheKeys |-> NoClient],
          created |-> 0,
          call |-> [c \in GetCalls |-> [pc |-> "idle", name |-> <<>>,
                                        client |-> NoClient]]]

\* A goroutine calls getClient(fingerprintName).
GetClient(c, fingerprintName) ==
    /\ UNCHANGED notGc
    /\ gc.call[c].pc = "idle"
    /\ gc' = [gc EXCEPT !.call[c] = [pc |-> "lookup", name |-> fingerprintName,
                                     client |-> NoClient]]

\* RLock; lookup; RUnlock: a hit returns the cached client.
GcLookup(c) ==
    /\ UNCHANGED notGc
    /\ gc.call[c].pc = "lookup"
    /\ LET client == gc.cache[gc.call[c].name]
       IN  gc' = [gc EXCEPT !.call[c].pc = IF client # NoClient THEN "returned"
                                           ELSE "create",
                            !.call[c].client = client]

\* findFingerprint and NewUTLSClient, outside both locks.
GcNewClient(c) ==
    /\ UNCHANGED notGc
    /\ gc.call[c].pc = "create"
    /\ gc' = [gc EXCEPT !.created = @ + 1,
                        !.call[c].client = gc.created + 1,
                        !.call[c].pc = "store"]

\* Lock; clientCache[fingerprintName] = client; Unlock; return client.
GcStore(c) ==
    /\ UNCHANGED notGc
    /\ gc.call[c].pc = "store"
    /\ gc' = [gc EXCEPT !.cache[gc.call[c].name] = gc.call[c].client,
                        !.call[c].pc = "returned"]

GcNext ==
    \E c \in GetCalls :
        \/ \E fingerprintName \in CacheKeys : GetClient(c, fingerprintName)
        \/ GcLookup(c)
        \/ GcNewClient(c)
        \/ GcStore(c)

InitGc == GcInit /\ FirstIdle /\ FwdIdle /\ UpIdle /\ FpIdle /\ ScIdle /\ TlIdle
          /\ LateIdle /\ DcIdle /\ HfIdle

SpecGc == InitGc /\ [][GcNext]_vars

(***************************************************************************)
(* Properties of the client cache.                                         *)
(***************************************************************************)
\* C34: the getClient calls of one ScraperService that name the same
\* fingerprint all return the same client, racing first calls included, and
\* the client a call returned is still the cache entry of its name.
C34_OneClientPerName ==
    \A c1, c2 \in GetCalls :
        (gc.call[c1].pc = "returned" /\ gc.call[c2].pc = "returned"
            /\ gc.call[c1].name = gc.call[c2].name)
        => /\ gc.call[c1].client = gc.call[c2].client
           /\ gc.cache[gc.call[c1].name] = gc.call[c1].client

(***************************************************************************)
(* The two copy goroutines of a tunnel, step by step.                      *)
(*                                                                         *)
(* CopyEnds above takes the end of io.Copy and the send on done as one     *)
(* step. Here they are two: a goroutine whose io.Copy has returned is at   *)
(* "send" until the channel takes its signal. io.Copy returns while both   *)
(* connections are open when a peer closes or fails, which may never       *)
(* happen; once handleConnect has closed the connections, the pending Read *)
(* or Write returns an error, so the return is then only a matter of the   *)
(* goroutine being scheduled.                                              *)
(***************************************************************************)
CopyDirs == {"c2t", "t2c"}

\* make(chan struct{}, 2)
DoneCap == 2

\* A send on a channel of capacity cap holding `done` signals goes through
\* when the buffer has room or handleConnect is waiting at the receive.
CanSend(cap) == done < cap \/ (pc = "wait" /\ done = 0)

\* io.Copy returns on EOF or on an error of one of the open connections.
CopyReturns(dir) ==
    /\ UNCHANGED notFE
    /\ copier[dir] = "run"
    /\ clientConn # "closed" /\ targetConn # "closed"
    /\ copier' = [copier EXCEPT ![dir] = "send"]
    /\ UNCHANGED <<cfg, simpleAuth, proxyHandler, req, pc, resp, route, events,
                   targetConn, clientConn, done>>

\* io.Copy returns because a connection it reads or writes has been closed.
CopyReturnsOnClose(dir) ==
    /\ UNCHANGED notFE
    /\ copier[dir] = "run"
    /\ clientConn = "closed" \/ targetConn = "closed"
    /\ copier' = [copier EXCEPT ![dir] = "send"]
    /\ UNCHANGED <<cfg, simpleAuth, proxyHandler, req, pc, resp, route, events,
                   targetConn, clientConn, done>>

\* The send on a done channel made without a buffer.
SendDone_Unbuffered(dir) ==
    /\ UNCHANGED notFE
    /\ copier[dir] = "send"
    /\ CanSend(0)
    /\ copier' = [copier EXCEPT ![dir] = "ended"]
    /\ done' = done + 1
    /\ UNCHANGED <<cfg, simpleAuth, proxyHandler, req, pc, resp, route, events,
                   targetConn, clientConn>>

\* done <- struct{}{}, the last statement of a copy goroutine.
SendDone(dir) ==
    /\ UNCHANGED notFE
    /\ copier[dir] = "send"
    /\ CanSend(DoneCap)
    /\ copier' = [copier EXCEPT ![dir] = "ended"]
    /\ done' = done + 1
    /\ UNCHANGED <<cfg, simpleAuth, proxyHandler, req, pc, resp, route, events,
                   targetConn, clientConn>>

TnNext ==
    \/ ServeHTTP
    \/ ConnectDial
    \/ Hijack
    \/ Write200
    \/ StartRelay
    \/ \E dir \in CopyDirs : CopyReturns(dir)
    \/ \E dir \in CopyDirs : CopyReturnsOnClose(dir)
    \/ \E dir \in CopyDirs : SendDone(dir)
    \/ ConnectReturn
    \/ HandleHTTP

\* A goroutine that can take its next step takes it: a copy whose connection
\* is closed returns, a send the channel can take is made, and handleConnect
\* receives a signal that is there.
SpecTn ==
    /\ InitFE
    /\ [][TnNext]_vars
    /\ \A dir \in CopyDirs : WF_vars(CopyReturnsOnClose(dir))
    /\ \A dir \in CopyDirs : WF_vars(SendDone(dir))
    /\ WF_vars(ConnectReturn)

(***************************************************************************)
(* Properties of a tunnel after handleConnect has returned.                *)
(***************************************************************************)
\* C35: once handleConnect has returned from a tunnel, the client connection
\* and the target connection are closed, and both copy goroutines end: each
\* gets out of its io.Copy and gets its signal into the done channel.
C35_TunnelTornDown ==
    /\ [](Happened("return") => (clientConn = "closed" /\ targetConn = "closed"))
    /\ Happened("return") ~> (copier["c2t"] = "ended" /\ copier["t2c"] = "ended")

\* handleConnect has returned while the copy from the target was still
\* running.
C35_Witness ==
    /\ Happened("return")
    /\ clientConn = "closed" /\ targetConn = "closed"
    /\ copier["c2t"] = "ended" /\ copier["t2c"] = "run"

(***************************************************************************)
(* A batch on the scraper that strike2.New creates.                        *)
(*                                                                         *)
(* New takes the worker count of the configuration and replaces a count    *)
(* that is not positive by 500; the result is the capacity of the worker   *)
(* channel. The batch then runs as in the scraper model above.             *)
(***************************************************************************)
\* cfg.Workers, from below zero up to the largest pool of the model.
ConfiguredWorkers == (-1)..MaxWorkers

\* New passing cfg.Workers on as it is.
Workers_AsConfigured(configured) == configured

\* New lines 62-65: workers := cfg.Workers; if workers <= 0 { workers = 500 }.
Workers(configured) == IF configured <= 0 THEN 500 ELSE configured

\* New, then one FetchBatch call with n requests on its scraper.
SvInit ==
    sc \in [ pc : {"spawn"},
             n : 1..MaxBatch,
             W : {Workers(configured) : configured \in ConfiguredWorkers},
             pool : {0},
             ctxDone : {FALSE},
             wg : {0},
             fetch : {[i \in 1..MaxBatch |-> NewFetch]},
             results : {[i \in 1..MaxBatch |-> ZeroResponse]},
             resp : {NoBatchResponse} ]

InitSv == SvInit /\ FirstIdle /\ FwdIdle /\ UpIdle /\ FpIdle /\ TlIdle
          /\ LateIdle /\ LastIdle

\* Every goroutine that can take its step takes it: FetchBatch starts its
\* goroutines and returns from wg.Wait(), a FetchURL at the select takes the
\* case that is ready, and an admitted fetch finishes. Nothing makes the
\* context of the batch end.
SpecSv ==
    /\ InitSv
    /\ [][ScNext]_vars
    /\ WF_vars(BatchReturn)
    /\ \A i \in 1..MaxBatch :
          /\ WF_vars(Spawn(i))
          /\ WF_vars(Acquire(i))
          /\ WF_vars(CancelledWaiting(i))
          /\ WF_vars(Work(i))

(***************************************************************************)
(* Properties of the batch on the created scraper.                         *)
(***************************************************************************)
\* C36: the scraper New creates has a worker count of at least 1, and on it
\* every FetchURL call of a batch returns, admitted and finished or cancelled
\* at the gate, and then FetchBatch returns.
C36_EveryFetchReturns ==
    /\ [](sc.W >= 1)
    /\ <>(\A i \in Fetches : sc.fetch[i].pc = "returned")
    /\ <>(sc.pc = "returned")

\* A batch of the largest size has returned on the 500 workers that replace
\* a configured count of zero or less, every fetch admitted.
C36_Witness ==
    /\ sc.W = 500
    /\ sc.pc = "returned"
    /\ sc.n = MaxBatch
    /\ \A i \in Fetches : sc.fetch[i].pc = "returned" /\ sc.fetch[i].acquired = 1

====
